---- MODULE Spec2Model ----
(***************************************************************************)
(* Model of the query/answer bridge of src/php-queries.cpp: the query      *)
(* memory allocator (qmem), the slot window, the StaticQueue ring buffers  *)
(* and the memcached / SQL answer generators.                              *)
(*                                                                         *)
(* A failed assert() stops the handler at the assert: the action records   *)
(* the assert in `crashed`, keeps whatever the handler had already written *)
(* and nothing runs afterwards.                                            *)
(***************************************************************************)
EXTENDS Integers, Sequences, FiniteSets, TLC

VARIABLES
  \* qmem (src/php-queries.cpp:69-89)
  qmem_generation, pages, cur_mem, used_mem, state, left,
  \* the C heap behind malloc/free: ids of the pages malloc'ed and not freed
  heap,
  \* history: blocks handed out by qmem_malloc since qmem_init or since the
  \* last qmem_free_ptrs that rebuilt `left`
  live,
  \* slot window (src/php-queries.cpp:705-706), the ids handed out since
  \* the last clear_slots and whether a clear_slots has reseeded (history)
  begin_slot_id, end_slot_id, issued, reseeded,
  \* one StaticQueue (src/php-queries.cpp:730-786) and its history: the
  \* stamps written into the records that were created and neither popped
  \* nor undone, oldest first; the number of stamps used; whether undo_create
  \* ran since construction / clear; whether an undo_create was accepted for
  \* a record that was not the newest unpopped one; the number of successful
  \* creates minus the successful pops and the accepted undo_creates
  net_events, ev_hist, ev_stamp, ev_undone, ev_misused, ev_out,
  \* one answer generator (memcached or SQL) with its answer record, and the
  \* value fragments (memcached) or packets (SQL) it has stored (history)
  ansgen, mc_log,
  \* the second StaticQueue (src/php-queries.cpp:789) and the line of
  \* php_queries_start / php_queries_finish the script is at
  net_queries, finish_pc,
  \* RpcPendingQueries::queries_ (src/runtime/tl/rpc_query.h:31) and its
  \* history: per id the query saved while the id was not pending, and the ids
  \* saved again while pending
  queries_, rpc_first, rpc_resaved,
  \* the C string held in last_net_error[] (src/php-queries.cpp:20)
  last_net_error,
  \* the last call and what it returned; the assert that stopped the process
  ret, crashed

qmem_vars  == <<qmem_generation, pages, cur_mem, used_mem, state, left, heap, live>>
slot_vars  == <<begin_slot_id, end_slot_id, issued, reseeded>>
queue_vars == <<net_events, ev_hist, ev_stamp, ev_undone, ev_misused, ev_out>>
gen_vars   == <<ansgen, mc_log>>
run_vars   == <<net_queries, finish_pc>>
rpc_vars   == <<queries_, rpc_first, rpc_resaved>>
err_vars   == <<last_net_error>>
vars == <<qmem_vars, slot_vars, queue_vars, gen_vars, run_vars, rpc_vars, err_vars,
          ret, crashed>>

\* nullptr as an address, and as a queue record
NULL == <<-1, 0>>
NoRec == -1
NoCrash == "running"
NoRet == [op |-> "none"]

(***************************************************************************)
(* QUERY MEMORY ALLOCATOR                                                  *)
(***************************************************************************)

\* program constants (src/php-queries.cpp:73-75)
static_pages_n == 2
page_size == 4194304
max_mem == 134217728
\* 1000 in the source; scaled so that the page table fills up
max_pages_n == 4

\* bounds of the exploration
MaxLive == 4
MaxGen == 2
MaxHeapId == 4

\* request sizes tried by the allocator actions: a fraction of a page, a
\* whole page, all that the byte ceiling leaves next to the static pages,
\* and one byte more than that
AllocParts == 3
AllocSizes == {page_size \div AllocParts, page_size,
               max_mem - static_pages_n * page_size,
               max_mem - static_pages_n * page_size + 1}

\* an address: page id and offset; the static pages are ids 0..static_pages_n-1
StaticIds == 0 .. (static_pages_n - 1)
HeapIds == static_pages_n .. MaxHeapId
Ptr(pg, off) == <<pg, off>>

InsertAt(s, i, e) == SubSeq(s, 1, i - 1) \o <<e>> \o SubSeq(s, i, Len(s))
RemoveAt(s, i) == SubSeq(s, 1, i - 1) \o SubSeq(s, i + 1, Len(s))

\* lower_bound returning the last entry whose key is >= n
lower_bound_last_fit(L, n) ==
  LET hits == {i \in 1 .. Len(L) : L[i].size >= n}
  IN IF hits = {} THEN 0 ELSE CHOOSE i \in hits : \A j \in hits : i >= j

\* std::multimap<size_t, void*>::lower_bound: the first entry whose key is
\* >= n, 0 for end()
lower_bound(L, n) ==
  LET hits == {i \in 1 .. Len(L) : L[i].size >= n}
  IN IF hits = {} THEN 0 ELSE CHOOSE i \in hits : \A j \in hits : i <= j

\* reg: multimap insert, which places the entry after the entries of equal key
reg(L, ptr, ptr_size) ==
  LET le == {i \in 1 .. Len(L) : L[i].size <= ptr_size}
  IN InsertAt(L, Cardinality(le) + 1, [size |-> ptr_size, ptr |-> ptr])

\* the allocator's state as one value, so that calls can be chained
Qmem == [pages |-> pages, cur_mem |-> cur_mem, used_mem |-> used_mem,
         state |-> state, left |-> left, heap |-> heap, live |-> live]

SetQmem(A) ==
  /\ pages' = A.pages
  /\ cur_mem' = A.cur_mem
  /\ used_mem' = A.used_mem
  /\ state' = A.state
  /\ left' = A.left
  /\ heap' = A.heap
  /\ live' = A.live

\* malloc returns an address that is not in use; here the lowest one
NewPageId(A) ==
  LET free == {i \in HeapIds : i \notin A.heap}
  IN IF free = {} THEN MaxHeapId + 1 ELSE CHOOSE i \in free : \A j \in free : i <= j

\* alloc_at_least without the test of the page table
alloc_at_least_no_page_ceiling(A, n, use, id) ==
  LET alloc_size == IF n >= page_size THEN n ELSE page_size
  IN IF alloc_size > max_mem \/ alloc_size + A.cur_mem > max_mem
     THEN [A |-> A, ptr |-> NULL, oom |-> TRUE]
     ELSE [A |-> [A EXCEPT
                    !.pages = Append(@, [id |-> id, size |-> alloc_size]),
                    !.heap = @ \cup {id},
                    !.left = IF use < alloc_size
                             THEN reg(@, Ptr(id, use), alloc_size - use)
                             ELSE @],
           ptr |-> Ptr(id, 0), oom |-> FALSE]

\* alloc_at_least(n, use) with `id` the address malloc returns
alloc_at_least(A, n, use, id) ==
  LET alloc_size == IF n >= page_size THEN n ELSE page_size
  IN IF Len(A.pages) = max_pages_n \/ alloc_size > max_mem
        \/ alloc_size + A.cur_mem > max_mem
     THEN [A |-> A, ptr |-> NULL, oom |-> TRUE]
     ELSE [A |-> [A EXCEPT
                    !.pages = Append(@, [id |-> id, size |-> alloc_size]),
                    !.heap = @ \cup {id},
                    !.left = IF use < alloc_size
                             THEN reg(@, Ptr(id, use), alloc_size - use)
                             ELSE @],
           ptr |-> Ptr(id, 0), oom |-> FALSE]

\* qmem_malloc registering the remainder at ptr instead of ptr + n
qmem_malloc_remainder_at_ptr(A, n, id) ==
  LET i == lower_bound(A.left, n)
      A1 == [A EXCEPT !.used_mem = @ + n]
  IN IF i = 0
     THEN LET r == alloc_at_least(A1, n, n, id)
          IN IF r.oom THEN r
             ELSE [r EXCEPT !.A.live = @ \cup {[ptr |-> r.ptr, size |-> n]}]
     ELSE LET ptr == A.left[i].ptr
              ptr_size == A.left[i].size - n
              L1 == RemoveAt(A.left, i)
          IN [A |-> [A1 EXCEPT
                       !.left = IF ptr_size > 0 THEN reg(L1, ptr, ptr_size) ELSE L1,
                       !.live = @ \cup {[ptr |-> ptr, size |-> n]}],
              ptr |-> ptr, oom |-> FALSE]

qmem_malloc(A, n, id) ==
  LET i == lower_bound(A.left, n)
      A1 == [A EXCEPT !.used_mem = @ + n]
  IN IF i = 0
     THEN LET r == alloc_at_least(A1, n, n, id)
          IN IF r.oom THEN r
             ELSE [r EXCEPT !.A.live = @ \cup {[ptr |-> r.ptr, size |-> n]}]
     ELSE LET ptr == A.left[i].ptr
              ptr_size == A.left[i].size - n
              L1 == RemoveAt(A.left, i)
          IN [A |-> [A1 EXCEPT
                       !.left = IF ptr_size > 0
                                THEN reg(L1, Ptr(ptr[1], ptr[2] + n), ptr_size)
                                ELSE L1,
                       !.live = @ \cup {[ptr |-> ptr, size |-> n]}],
              ptr |-> ptr, oom |-> FALSE]

\* qmem_malloc_tmp peeking at the last fitting entry instead of the first
qmem_malloc_tmp_peeks_last(A, n, id) ==
  LET hits == {i \in 1 .. Len(A.left) : A.left[i].size >= n}
  IN IF hits = {} THEN alloc_at_least(A, n, 0, id)
     ELSE [A |-> A, oom |-> FALSE,
           ptr |-> A.left[CHOOSE i \in hits : \A j \in hits : i >= j].ptr]

\* qmem_malloc_tmp counting the peeked bytes as used
qmem_malloc_tmp_counts_used(A, n, id) ==
  LET i == lower_bound(A.left, n)
      A1 == [A EXCEPT !.used_mem = @ + n]
  IN IF i = 0 THEN alloc_at_least(A1, n, 0, id)
     ELSE [A |-> A1, ptr |-> A.left[i].ptr, oom |-> FALSE]

qmem_malloc_tmp(A, n, id) ==
  LET i == lower_bound(A.left, n)
  IN IF i = 0 THEN alloc_at_least(A, n, 0, id)
     ELSE [A |-> A, ptr |-> A.left[i].ptr, oom |-> FALSE]

\* the zero-fill writes into the returned block only
qmem_malloc0(A, n, id) == qmem_malloc(A, n, id)

RegAll(ps) ==
  LET acc[i \in 0 .. Len(ps)] ==
        IF i = 0 THEN <<>> ELSE reg(acc[i - 1], Ptr(ps[i].id, 0), ps[i].size)
  IN acc[Len(ps)]

qmem_init_pages == [i \in 1 .. static_pages_n |-> [id |-> i - 1, size |-> page_size]]

\* the free-list rebuild of qmem_free_ptrs (the generation is bumped by the action)
qmem_free_ptrs(A) ==
  IF A.used_mem + A.used_mem > A.cur_mem
  THEN [A EXCEPT !.left = RegAll(A.pages), !.used_mem = 0, !.live = {}]
  ELSE A

\* qmem_clear leaving the free index as it is
qmem_clear_keeps_left(A) ==
  [A EXCEPT !.used_mem = 0,
            !.heap = @ \ {A.pages[i].id : i \in (static_pages_n + 1) .. Len(A.pages)},
            !.state = "st_empty", !.live = {}]

qmem_clear(A) ==
  [A EXCEPT !.left = <<>>, !.used_mem = 0,
            !.heap = @ \ {A.pages[i].id : i \in (static_pages_n + 1) .. Len(A.pages)},
            !.state = "st_empty", !.live = {}]

\* whether malloc still has an address to hand out within MaxHeapId
HeapHasRoom == \E i \in HeapIds : i \notin heap

\* ---- allocator actions ----

Crash(what) == crashed' = what

\* qmem_init leaving pages_n as it finds it
QmemInit_keeps_pages_n ==
  /\ crashed = NoCrash
  /\ state = "st_empty" /\ left = <<>>
  /\ SetQmem([Qmem EXCEPT !.cur_mem = static_pages_n * page_size,
                          !.pages = qmem_init_pages \o
                                    SubSeq(@, static_pages_n + 1, Len(@)),
                          !.left = RegAll(qmem_init_pages),
                          !.state = "st_inited",
                          !.live = {}])
  /\ ret' = [op |-> "qmem_init"]
  /\ UNCHANGED <<qmem_generation, crashed>>

QmemInit ==
  /\ crashed = NoCrash
  /\ state = "st_empty" /\ left = <<>>
  /\ SetQmem([Qmem EXCEPT !.cur_mem = static_pages_n * page_size,
                          !.pages = qmem_init_pages,
                          !.left = RegAll(qmem_init_pages),
                          !.state = "st_inited",
                          !.live = {}])
  /\ ret' = [op |-> "qmem_init"]
  /\ UNCHANGED <<qmem_generation, crashed>>

QmemInitRejected ==
  /\ crashed = NoCrash
  /\ ~(state = "st_empty" /\ left = <<>>)
  /\ Crash(IF state # "st_empty" THEN "state == st_empty" ELSE "left.empty()")
  /\ ret' = [op |-> "qmem_init"]
  /\ UNCHANGED <<qmem_vars>>

\* qmem_malloc / qmem_malloc0: `zero` tells which; ret.peeked is what a
\* qmem_malloc_tmp of the same size returned if it was the call before
QmemMalloc(n, zero, id) ==
  /\ crashed = NoCrash
  /\ id \in HeapIds /\ id \notin heap
  /\ Cardinality(live) < MaxLive \/ qmem_malloc(Qmem, n, id).oom
  /\ LET r == IF zero THEN qmem_malloc0(Qmem, n, id) ELSE qmem_malloc(Qmem, n, id)
     IN /\ SetQmem(r.A)
        /\ ret' = [op |-> IF zero THEN "qmem_malloc0" ELSE "qmem_malloc",
                   n |-> n, ptr |-> r.ptr,
                   peeked |-> IF ret.op = "qmem_malloc_tmp" /\ ret.n = n
                              THEN ret.ptr ELSE NULL]
        /\ crashed' = IF r.oom THEN "NOT ENOUGH MEMORY" ELSE crashed
  /\ UNCHANGED qmem_generation

QmemMallocTmp(n, id) ==
  /\ crashed = NoCrash
  /\ id \in HeapIds /\ id \notin heap
  /\ LET r == qmem_malloc_tmp(Qmem, n, id)
     IN /\ SetQmem(r.A)
        /\ ret' = [op |-> "qmem_malloc_tmp", n |-> n, ptr |-> r.ptr]
        /\ crashed' = IF r.oom THEN "NOT ENOUGH MEMORY" ELSE crashed
  /\ UNCHANGED qmem_generation

\* qmem_free_ptrs bumping the generation only when it rebuilt the free index
QmemFreePtrs_bump_on_rebuild ==
  /\ crashed = NoCrash
  /\ qmem_generation < MaxGen
  /\ SetQmem(qmem_free_ptrs(Qmem))
  /\ qmem_generation' = IF used_mem + used_mem > cur_mem
                        THEN qmem_generation + 1 ELSE qmem_generation
  /\ ret' = [op |-> "qmem_free_ptrs"]
  /\ UNCHANGED crashed

QmemFreePtrs ==
  /\ crashed = NoCrash
  /\ qmem_generation < MaxGen
  /\ SetQmem(qmem_free_ptrs(Qmem))
  /\ qmem_generation' = qmem_generation + 1
  /\ ret' = [op |-> "qmem_free_ptrs"]
  /\ UNCHANGED crashed

QmemClear ==
  /\ crashed = NoCrash
  /\ qmem_generation < MaxGen
  /\ state = "st_inited"
  /\ SetQmem(qmem_clear(Qmem))
  /\ qmem_generation' = qmem_generation + 1
  /\ ret' = [op |-> "qmem_clear"]
  /\ UNCHANGED crashed

QmemClearRejected ==
  /\ crashed = NoCrash
  /\ state # "st_inited"
  /\ Crash("state == st_inited")
  /\ ret' = [op |-> "qmem_clear"]
  /\ UNCHANGED qmem_vars

QmemInitState ==
  /\ qmem_generation = 0
  /\ pages = <<>>
  /\ cur_mem = 0
  /\ used_mem = 0
  /\ state = "st_empty"
  /\ left = <<>>
  /\ heap = {}
  /\ live = {}

(***************************************************************************)
(* SLOT WINDOW                                                             *)
(***************************************************************************)

\* 1000000000 in the source; scaled
max_slot_id == 12

SlotSeeds == 1 .. (max_slot_id \div 4)

\* init_slots with `seed` = lrand48() % (max_slot_id / 4) + 1
init_slots(seed) == [begin |-> seed, end |-> seed]

is_valid_slot(slot_id) == begin_slot_id <= slot_id /\ slot_id < end_slot_id

\* create_slot handing out end_slot_id without advancing it
create_slot_no_advance ==
  IF end_slot_id > max_slot_id
  THEN [end |-> end_slot_id, res |-> -1]
  ELSE [end |-> end_slot_id, res |-> end_slot_id]

create_slot ==
  IF end_slot_id > max_slot_id
  THEN [end |-> end_slot_id, res |-> -1]
  ELSE [end |-> end_slot_id + 1, res |-> end_slot_id]

\* clear_slots that never reseeds the window
clear_slots_no_reseed(seed) == [begin |-> end_slot_id, end |-> end_slot_id]

clear_slots(seed) ==
  IF end_slot_id > max_slot_id \div 2
  THEN init_slots(seed)
  ELSE [begin |-> end_slot_id, end |-> end_slot_id]

CreateSlot ==
  /\ crashed = NoCrash
  /\ end_slot_id' = create_slot.end
  /\ ret' = [op |-> "create_slot", res |-> create_slot.res,
             retry |-> (ret.op = "clear_slots" /\ ret.after_failed)]
  /\ issued' = IF create_slot.res = -1 THEN issued ELSE issued \cup {create_slot.res}
  /\ UNCHANGED <<begin_slot_id, reseeded, crashed>>

IsValidSlot(slot_id) ==
  /\ crashed = NoCrash
  /\ ret' = [op |-> "is_valid_slot", slot_id |-> slot_id, res |-> is_valid_slot(slot_id)]
  /\ UNCHANGED <<slot_vars, crashed>>

ClearSlots(seed) ==
  /\ crashed = NoCrash
  /\ begin_slot_id' = clear_slots(seed).begin
  /\ end_slot_id' = clear_slots(seed).end
  /\ issued' = {}
  /\ reseeded' = (reseeded \/ end_slot_id > max_slot_id \div 2)
  /\ ret' = [op |-> "clear_slots",
             after_failed |-> (ret.op = "create_slot" /\ ret.res = -1)]
  /\ UNCHANGED crashed

\* init_drivers has run: the window is seeded and empty
SlotInitState(seed) ==
  /\ begin_slot_id = init_slots(seed).begin
  /\ end_slot_id = init_slots(seed).end
  /\ issued = {}
  /\ reseeded = FALSE

\* every slot id a caller may ask about
SlotIds == -1 .. (max_slot_id + 2)

(***************************************************************************)
(* RING QUEUE                                                              *)
(***************************************************************************)

\* the template parameter N: 2000000 in the source; scaled
N == 3

\* bounds of the exploration
MaxStamp == 6
MaxUnder == 2

\* StaticQueue(): q holds zeroed records
StaticQueue == [q |-> [i \in 0 .. (N - 1) |-> 0], begin |-> 0, end |-> 0, cnt |-> 0]

clear(Q) == [Q EXCEPT !.begin = 0, !.end = 0, !.cnt = 0]

empty(Q) == Q.cnt = 0

\* the result is the index of the record in q, NoRec for nullptr
create(Q) ==
  IF Q.cnt = N
  THEN [Q |-> Q, res |-> NoRec]
  ELSE [Q |-> [Q EXCEPT !.end = IF Q.end + 1 = N THEN 0 ELSE Q.end + 1,
                        !.cnt = @ + 1],
        res |-> Q.end]

undo_old_end(Q) == IF Q.end - 1 = -1 THEN N - 1 ELSE Q.end - 1

\* undo_create forgetting cnt--
undo_create_keeps_cnt(Q) == [Q EXCEPT !.end = undo_old_end(Q)]

\* undo_create forgetting to move end back
undo_create_keeps_end(Q) == [Q EXCEPT !.cnt = @ - 1]

\* undo_create past its assert (event == &q[old_end])
undo_create(Q) == [Q EXCEPT !.end = undo_old_end(Q), !.cnt = @ - 1]

\* pop taking begin == end for empty
pop_empty_by_position(Q) ==
  IF Q.begin = Q.end
  THEN [Q |-> Q, res |-> NoRec]
  ELSE [Q |-> [Q EXCEPT !.begin = IF Q.begin + 1 = N THEN 0 ELSE Q.begin + 1,
                        !.cnt = @ - 1],
        res |-> Q.begin]

pop(Q) ==
  IF empty(Q)
  THEN [Q |-> Q, res |-> NoRec]
  ELSE [Q |-> [Q EXCEPT !.begin = IF Q.begin + 1 = N THEN 0 ELSE Q.begin + 1,
                        !.cnt = @ - 1],
        res |-> Q.begin]

Front(s) == SubSeq(s, 1, Len(s) - 1)

QShape(Q) == [begin |-> Q.begin, end |-> Q.end, cnt |-> Q.cnt]

\* create() and the caller's write into the fresh record (here: a stamp)
QCreate ==
  /\ crashed = NoCrash
  /\ ev_stamp < MaxStamp
  /\ LET r == create(net_events)
     IN IF r.res = NoRec
        THEN /\ net_events' = r.Q
             /\ ret' = [op |-> "create", res |-> NoRec, before |-> QShape(net_events)]
             /\ UNCHANGED <<ev_hist, ev_stamp, ev_out>>
        ELSE /\ net_events' = [r.Q EXCEPT !.q[r.res] = ev_stamp + 1]
             /\ ret' = [op |-> "create", res |-> r.res, before |-> QShape(net_events)]
             /\ ev_stamp' = ev_stamp + 1
             /\ ev_hist' = Append(ev_hist, [id |-> ev_stamp + 1, at |-> r.res])
             /\ ev_out' = ev_out + 1
  /\ UNCHANGED <<ev_undone, ev_misused, crashed>>

\* the handle is the newest record that was created and neither popped nor undone
NewestUnpopped(event) ==
  ev_hist # <<>> /\ ~ev_misused /\ ev_hist[Len(ev_hist)].at = event

QUndoCreate(event) ==
  /\ crashed = NoCrash
  /\ net_events.cnt > -MaxUnder
  /\ event = undo_old_end(net_events)
  /\ net_events' = undo_create(net_events)
  /\ ret' = [op |-> "undo_create", event |-> event,
             after_create |-> (ret.op = "create" /\ ret.res = event),
             before |-> IF ret.op = "create" THEN ret.before ELSE QShape(net_events)]
  /\ ev_undone' = TRUE
  /\ ev_out' = ev_out - 1
  /\ IF NewestUnpopped(event)
     THEN ev_hist' = Front(ev_hist) /\ UNCHANGED ev_misused
     ELSE ev_misused' = TRUE /\ UNCHANGED ev_hist
  /\ UNCHANGED <<ev_stamp, crashed>>

QUndoCreateRejected(event) ==
  /\ crashed = NoCrash
  /\ event # undo_old_end(net_events)
  /\ Crash("event == &q[old_end]")
  /\ ret' = [op |-> "undo_create", event |-> event, after_create |-> FALSE,
             before |-> QShape(net_events)]
  /\ UNCHANGED queue_vars

QPop ==
  /\ crashed = NoCrash
  /\ net_events.cnt > -MaxUnder
  /\ LET r == pop(net_events)
     IN /\ net_events' = r.Q
        /\ ret' = [op |-> "pop", res |-> r.res,
                   rec |-> IF r.res = NoRec THEN 0 ELSE net_events.q[r.res]]
        /\ ev_hist' = IF r.res # NoRec /\ ev_hist # <<>> THEN Tail(ev_hist) ELSE ev_hist
        /\ ev_out' = IF r.res # NoRec THEN ev_out - 1 ELSE ev_out
  /\ UNCHANGED <<ev_stamp, ev_undone, ev_misused, crashed>>

QClear ==
  /\ crashed = NoCrash
  /\ net_events' = clear(net_events)
  /\ ev_hist' = <<>>
  /\ ev_undone' = FALSE
  /\ ev_misused' = FALSE
  /\ ev_out' = 0
  /\ ret' = [op |-> "clear"]
  /\ UNCHANGED <<ev_stamp, crashed>>

QueueInitState ==
  /\ net_events = StaticQueue
  /\ ev_hist = <<>>
  /\ ev_stamp = 0
  /\ ev_undone = FALSE
  /\ ev_misused = FALSE
  /\ ev_out = 0

(***************************************************************************)
(* ANSWER GENERATORS                                                       *)
(***************************************************************************)

\* sizeof of the structs the generators put into query memory
SizeofAnswer == 40
SizeofStrBuf == 16
SizeofChain == 32

\* bounds of the exploration
MaxBufLen == 4
MaxPackets == 2

\* fragments handed in by the readers, as sequences of bytes
Frags == {<<>>, <<"a", "b">>, <<"c", "d">>}
end_reader == <<"E", "N", "D", "\r", "\n">>
stored_reader == <<"S", "T", "O", "R", "E", "D", "\r", "\n">>
notstored_reader == <<"N", "O", "T", "_", "S", "T", "O", "R", "E", "D", "\r", "\n">>

NoAnsgen == [kind |-> "none"]

\* a C string literal, and a pointer into a str_buf with the bytes it holds
Lit(str) == [kind |-> "lit", s |-> str]
BufRes(B) == [kind |-> "buf", ptr |-> B.ptr, bytes |-> B.buf]
NullRes == [kind |-> "null"]

\* the answer record after qmem_malloc0
ZeroAnswer == [state |-> "zero", res |-> NullRes, res_len |-> 0,
               desc |-> NullRes, chain |-> -1]

\* a handler's outcome: the generator, the allocator, the assert that failed
Out(G, A, crash) == [G |-> G, A |-> A, crash |-> crash]

\* net_ansgen_is_alive forgetting the generation
net_ansgen_is_alive_always(G) == TRUE

net_ansgen_is_alive(G) == G.base.qmem_req_generation = qmem_generation

\* net_ansgen_timeout leaving the captured generation as it is
net_ansgen_timeout_keeps_generation(G, A) ==
  IF G.base.state # "st_ansgen_wait"
  THEN Out(G, A, "base_self->state == st_ansgen_wait")
  ELSE IF net_ansgen_is_alive(G)
       THEN Out([G EXCEPT !.base.ans.state = "nq_error",
                          !.base.ans.res = Lit("Timeout")], A, NoCrash)
       ELSE Out(G, A, NoCrash)

net_ansgen_timeout(G, A) ==
  IF G.base.state # "st_ansgen_wait"
  THEN Out(G, A, "base_self->state == st_ansgen_wait")
  ELSE IF net_ansgen_is_alive(G)
       THEN Out([G EXCEPT !.base.ans.state = "nq_error",
                          !.base.ans.res = Lit("Timeout"),
                          !.base.qmem_req_generation = -1], A, NoCrash)
       ELSE Out(G, A, NoCrash)

\* net_ansgen_error writing the answer without asking whether it is alive
net_ansgen_error_writes_when_dead(G, A, val) ==
  IF G.base.state # "st_ansgen_wait"
  THEN Out(G, A, "base_self->state == st_ansgen_wait")
  ELSE Out([G EXCEPT !.base.ans = [@ EXCEPT !.state = "nq_error", !.res = Lit(val)],
                     !.base.state = "st_ansgen_error"], A, NoCrash)

net_ansgen_error(G, A, val) ==
  IF G.base.state # "st_ansgen_wait"
  THEN Out(G, A, "base_self->state == st_ansgen_wait")
  ELSE Out([G EXCEPT !.base.ans = IF net_ansgen_is_alive(G)
                                  THEN [@ EXCEPT !.state = "nq_error", !.res = Lit(val)]
                                  ELSE @,
                     !.base.state = "st_ansgen_error"], A, NoCrash)

net_ansgen_set_desc(G, A, val) ==
  IF net_ansgen_is_alive(G)
  THEN Out([G EXCEPT !.base.ans.desc = Lit(val)], A, NoCrash)
  ELSE Out(G, A, NoCrash)

\* ---- str_buffer ----

\* str_buf_create: buf is left uninitialized
str_buf_create(A) ==
  LET r == qmem_malloc(A, SizeofStrBuf, NewPageId(A))
  IN [B |-> [ptr |-> NULL, buf |-> <<>>, buf_len |-> 0, len |-> 0],
      A |-> r.A, oom |-> r.oom]

\* str_buf_append growing the buffer without copying what it holds
str_buf_append_no_copy(B, A, reader) ==
  LET need == Len(reader) + B.len
  IN IF need >= B.buf_len
     THEN LET r == qmem_malloc(A, need * 2 + 1, NewPageId(A))
          IN IF r.oom
             THEN [B |-> B, A |-> r.A, oom |-> TRUE]
             ELSE [B |-> [ptr |-> r.ptr, buf |-> reader,
                          buf_len |-> need * 2 + 1, len |-> B.len + Len(reader)],
                   A |-> r.A, oom |-> FALSE]
     ELSE [B |-> [B EXCEPT !.buf = @ \o reader, !.len = @ + Len(reader)],
           A |-> A, oom |-> FALSE]

\* str_buf_append growing to 2 * need, without the byte for the terminator
str_buf_append_no_terminator_room(B, A, reader) ==
  LET need == Len(reader) + B.len
  IN IF need >= B.buf_len
     THEN LET r == qmem_malloc(A, need * 2, NewPageId(A))
          IN IF r.oom
             THEN [B |-> B, A |-> r.A, oom |-> TRUE]
             ELSE [B |-> [ptr |-> r.ptr, buf |-> B.buf \o reader,
                          buf_len |-> need * 2, len |-> B.len + Len(reader)],
                   A |-> r.A, oom |-> FALSE]
     ELSE [B |-> [B EXCEPT !.buf = @ \o reader, !.len = @ + Len(reader)],
           A |-> A, oom |-> FALSE]

str_buf_append(B, A, reader) ==
  LET need == Len(reader) + B.len
  IN IF need >= B.buf_len
     THEN LET r == qmem_malloc(A, need * 2 + 1, NewPageId(A))
          IN IF r.oom
             THEN [B |-> B, A |-> r.A, oom |-> TRUE]
             ELSE [B |-> [ptr |-> r.ptr, buf |-> B.buf \o reader,
                          buf_len |-> need * 2 + 1, len |-> B.len + Len(reader)],
                   A |-> r.A, oom |-> FALSE]
     ELSE [B |-> [B EXCEPT !.buf = @ \o reader, !.len = @ + Len(reader)],
           A |-> A, oom |-> FALSE]

\* str_buf_cstr writes the terminator at buf[len] and returns buf
str_buf_cstr(B) == BufRes(B)

str_buf_len(B) == B.len

\* ---- chain: node 0 is the head; next and prev are node numbers ----

chain_conn(C, a, b) == [[C EXCEPT ![a].next = b] EXCEPT ![b].prev = a]

chain_create(A) ==
  LET r == qmem_malloc(A, SizeofChain, NewPageId(A))
  IN [C |-> chain_conn(0 :> [next |-> -1, prev |-> -1, buf |-> <<>>, len |-> 0], 0, 0),
      A |-> r.A, oom |-> r.oom]

\* chain_append linking the node after the head instead of before it
chain_append_after_head(C, A, reader) ==
  LET r1 == qmem_malloc(A, SizeofChain, NewPageId(A))
      r2 == qmem_malloc(r1.A, Len(reader), NewPageId(r1.A))
      node == Cardinality(DOMAIN C)
      C1 == C @@ (node :> [next |-> -1, prev |-> -1, buf |-> reader, len |-> Len(reader)])
  IN IF r1.oom THEN [C |-> C, A |-> r1.A, oom |-> TRUE]
     ELSE IF r2.oom THEN [C |-> C, A |-> r2.A, oom |-> TRUE]
     ELSE [C |-> chain_conn(chain_conn(C1, node, C[0].next), 0, node),
           A |-> r2.A, oom |-> FALSE]

chain_append(C, A, reader) ==
  LET r1 == qmem_malloc(A, SizeofChain, NewPageId(A))
      r2 == qmem_malloc(r1.A, Len(reader), NewPageId(r1.A))
      node == Cardinality(DOMAIN C)
      C1 == C @@ (node :> [next |-> -1, prev |-> -1, buf |-> reader, len |-> Len(reader)])
  IN IF r1.oom THEN [C |-> C, A |-> r1.A, oom |-> TRUE]
     ELSE IF r2.oom THEN [C |-> C, A |-> r2.A, oom |-> TRUE]
     ELSE [C |-> chain_conn(chain_conn(C1, C[0].prev, node), node, 0),
           A |-> r2.A, oom |-> FALSE]

\* ---- memcached answer generator ----

\* the branch shared by xstored, version, other and end: append the
\* fragment and publish the buffer if alive, then finish
mc_finish(G, A, reader) ==
  IF net_ansgen_is_alive(G)
  THEN LET r == str_buf_append(G.str_buf, A, reader)
       IN IF r.oom THEN Out(G, r.A, "NOT ENOUGH MEMORY")
          ELSE Out([G EXCEPT !.str_buf = r.B,
                             !.base.ans.state = "nq_ok",
                             !.base.ans.res = str_buf_cstr(r.B),
                             !.base.ans.res_len = str_buf_len(r.B),
                             !.base.state = "st_ansgen_done"], r.A, NoCrash)
  ELSE Out([G EXCEPT !.base.state = "st_ansgen_done"], A, NoCrash)

Commit(G, to) == IF G.state = "ap_any" THEN [G EXCEPT !.state = to] ELSE G

mc_ansgen_packet_xstored(G, A, is_stored) ==
  LET G1 == Commit(G, "ap_store")
  IN IF G1.state # "ap_store"
     THEN net_ansgen_error(G1, A, "Unexpected STORED")
     ELSE mc_finish(G1, A, IF is_stored THEN stored_reader ELSE notstored_reader)

\* mc_ansgen_packet_value publishing the answer like the end marker does
mc_ansgen_packet_value_publishes(G, A, reader) ==
  LET G1 == Commit(G, "ap_get")
  IN IF G1.state # "ap_get"
     THEN net_ansgen_error(G1, A, "Unexpected VALUE")
     ELSE mc_finish(G1, A, reader)

mc_ansgen_packet_value(G, A, reader) ==
  LET G1 == Commit(G, "ap_get")
  IN IF G1.state # "ap_get"
     THEN net_ansgen_error(G1, A, "Unexpected VALUE")
     ELSE IF net_ansgen_is_alive(G1)
          THEN LET r == str_buf_append(G1.str_buf, A, reader)
               IN IF r.oom THEN Out(G1, r.A, "NOT ENOUGH MEMORY")
                  ELSE Out([G1 EXCEPT !.str_buf = r.B], r.A, NoCrash)
          ELSE Out(G1, A, NoCrash)

mc_ansgen_packet_version(G, A, reader) ==
  IF G.state # "ap_version" THEN Out(G, A, NoCrash) ELSE mc_finish(G, A, reader)

mc_ansgen_packet_set_query_type(G, A, query_type) ==
  LET new_state == IF query_type = 1 THEN "ap_version" ELSE "ap_any"
      G1 == Commit(G, new_state)
  IN IF new_state = "ap_any" THEN Out(G, A, NoCrash)
     ELSE IF G1.state # new_state
          THEN net_ansgen_error(G1, A, "Can't determine query type")
          ELSE Out(G1, A, NoCrash)

mc_ansgen_packet_other(G, A, reader) ==
  LET G1 == Commit(G, "ap_other")
  IN IF G1.state # "ap_other"
     THEN net_ansgen_error(G1, A, "Unexpected \"other\" command")
     ELSE mc_finish(G1, A, reader)

mc_ansgen_packet_end(G, A) ==
  IF G.base.state # "st_ansgen_wait"
  THEN Out(G, A, "base_self->state == st_ansgen_wait")
  ELSE LET G1 == Commit(G, "ap_get")
       IN IF G1.state # "ap_get"
          THEN net_ansgen_error(G1, A, "Unexpected END")
          ELSE mc_finish(G1, A, end_reader)

\* the generator's fields before the allocations of its create function
NewBase == [qmem_req_generation |-> qmem_generation, state |-> "st_ansgen_wait",
            ans |-> ZeroAnswer]

mc_ansgen_packet_create(A) ==
  LET r1 == qmem_malloc0(A, SizeofAnswer, NewPageId(A))
      r2 == str_buf_create(r1.A)
  IN IF r1.oom THEN Out(NoAnsgen, r1.A, "NOT ENOUGH MEMORY")
     ELSE IF r2.oom THEN Out(NoAnsgen, r2.A, "NOT ENOUGH MEMORY")
     ELSE Out([kind |-> "mc", base |-> NewBase, state |-> "ap_any", str_buf |-> r2.B],
              r2.A, NoCrash)

\* ---- sql answer generator ----

sql_ansgen_packet_set_writer(G, A, writer) ==
  IF G.base.state # "st_ansgen_wait"
  THEN Out(G, A, "base_self->state == st_ansgen_wait")
  ELSE IF G.state # "sql_ap_init"
       THEN Out(G, A, "self->state == sql_ap_init")
       ELSE Out([G EXCEPT !.writer = writer, !.state = "sql_ap_wait_conn"], A, NoCrash)

\* sql_ansgen_packet_ready leaving the sub-state at sql_ap_wait_conn
sql_ansgen_packet_ready_stays(G, A) ==
  IF G.base.state # "st_ansgen_wait"
  THEN Out(G, A, "base_self->state == st_ansgen_wait")
  ELSE IF G.state # "sql_ap_wait_conn"
       THEN Out(G, A, "self->state == sql_ap_wait_conn")
       ELSE Out([G EXCEPT !.runs = IF G.writer # "nullptr" THEN @ + 1 ELSE @],
                A, NoCrash)

\* `runs` counts the calls of writer->run
sql_ansgen_packet_ready(G, A) ==
  IF G.base.state # "st_ansgen_wait"
  THEN Out(G, A, "base_self->state == st_ansgen_wait")
  ELSE IF G.state # "sql_ap_wait_conn"
       THEN Out(G, A, "self->state == sql_ap_wait_conn")
       ELSE Out([G EXCEPT !.runs = IF G.writer # "nullptr" THEN @ + 1 ELSE @,
                          !.state = "sql_ap_wait_ans"], A, NoCrash)

sql_ansgen_packet_add_packet(G, A, reader) ==
  IF G.base.state # "st_ansgen_wait"
  THEN Out(G, A, "base_self->state == st_ansgen_wait")
  ELSE IF G.state # "sql_ap_wait_ans"
       THEN Out(G, A, "self->state == sql_ap_wait_ans")
       ELSE IF net_ansgen_is_alive(G)
            THEN LET r == chain_append(G.chain, A, reader)
                 IN IF r.oom THEN Out(G, r.A, "NOT ENOUGH MEMORY")
                    ELSE Out([G EXCEPT !.chain = r.C], r.A, NoCrash)
            ELSE Out(G, A, NoCrash)

sql_ansgen_packet_done(G, A) ==
  IF G.base.state # "st_ansgen_wait"
  THEN Out(G, A, "base_self->state == st_ansgen_wait")
  ELSE IF G.state # "sql_ap_wait_ans"
       THEN Out(G, A, "self->state == sql_ap_wait_ans")
       ELSE Out([G EXCEPT !.base.ans = IF net_ansgen_is_alive(G)
                                       THEN [@ EXCEPT !.state = "nq_ok", !.chain = 0]
                                       ELSE @,
                          !.base.state = "st_ansgen_done"], A, NoCrash)

sql_ansgen_packet_create(A) ==
  LET r1 == qmem_malloc0(A, SizeofAnswer, NewPageId(A))
      r2 == chain_create(r1.A)
  IN IF r1.oom THEN Out(NoAnsgen, r1.A, "NOT ENOUGH MEMORY")
     ELSE IF r2.oom THEN Out(NoAnsgen, r2.A, "NOT ENOUGH MEMORY")
     ELSE Out([kind |-> "sql", base |-> NewBase, state |-> "sql_ap_init",
               writer |-> "nullptr", runs |-> 0, chain |-> r2.C],
              r2.A, NoCrash)

\* ---- generator actions ----

\* a handler ran: take over its outcome
Handled(op, o) ==
  /\ ansgen' = o.G
  /\ SetQmem(o.A)
  /\ crashed' = o.crash
  /\ ret' = [op |-> op]
  /\ UNCHANGED qmem_generation

IsMc == crashed = NoCrash /\ ansgen.kind = "mc" /\ HeapHasRoom
IsSql == crashed = NoCrash /\ ansgen.kind = "sql" /\ HeapHasRoom

McCreate ==
  /\ crashed = NoCrash /\ HeapHasRoom /\ ansgen = NoAnsgen
  /\ Handled("mc_create", mc_ansgen_packet_create(Qmem))
  /\ mc_log' = <<>>

SqlCreate ==
  /\ crashed = NoCrash /\ HeapHasRoom /\ ansgen = NoAnsgen
  /\ Handled("sql_create", sql_ansgen_packet_create(Qmem))
  /\ mc_log' = <<>>

McValue(reader) ==
  /\ IsMc /\ ansgen.str_buf.len <= MaxBufLen
  /\ Handled("mc_value", mc_ansgen_packet_value(ansgen, Qmem, reader))
  /\ mc_log' = IF ansgen'.str_buf # ansgen.str_buf THEN Append(mc_log, reader) ELSE mc_log

McEnd ==
  /\ IsMc /\ ansgen.str_buf.len <= MaxBufLen
  /\ Handled("mc_end", mc_ansgen_packet_end(ansgen, Qmem))
  /\ UNCHANGED mc_log

McXStored(is_stored) ==
  /\ IsMc /\ ansgen.str_buf.len <= MaxBufLen
  /\ Handled("mc_xstored", mc_ansgen_packet_xstored(ansgen, Qmem, is_stored))
  /\ UNCHANGED mc_log

McOther(reader) ==
  /\ IsMc /\ ansgen.str_buf.len <= MaxBufLen
  /\ Handled("mc_other", mc_ansgen_packet_other(ansgen, Qmem, reader))
  /\ UNCHANGED mc_log

McVersion(reader) ==
  /\ IsMc /\ ansgen.str_buf.len <= MaxBufLen
  /\ Handled("mc_version", mc_ansgen_packet_version(ansgen, Qmem, reader))
  /\ UNCHANGED mc_log

McSetQueryType(query_type) ==
  /\ IsMc
  /\ Handled("mc_set_query_type", mc_ansgen_packet_set_query_type(ansgen, Qmem, query_type))
  /\ UNCHANGED mc_log

SqlSetWriter(writer) ==
  /\ IsSql
  /\ Handled("sql_set_writer", sql_ansgen_packet_set_writer(ansgen, Qmem, writer))
  /\ UNCHANGED mc_log

SqlReady ==
  /\ IsSql
  /\ Handled("sql_ready", sql_ansgen_packet_ready(ansgen, Qmem))
  /\ UNCHANGED mc_log

SqlPacket(reader) ==
  /\ IsSql /\ Cardinality(DOMAIN ansgen.chain) <= MaxPackets
  /\ Handled("sql_packet", sql_ansgen_packet_add_packet(ansgen, Qmem, reader))
  /\ mc_log' = IF ansgen'.chain # ansgen.chain THEN Append(mc_log, reader) ELSE mc_log

SqlDone ==
  /\ IsSql
  /\ Handled("sql_done", sql_ansgen_packet_done(ansgen, Qmem))
  /\ UNCHANGED mc_log

AnsgenError(val) ==
  /\ crashed = NoCrash /\ ansgen.kind # "none"
  /\ Handled("error", net_ansgen_error(ansgen, Qmem, val))
  /\ UNCHANGED mc_log

AnsgenTimeout ==
  /\ crashed = NoCrash /\ ansgen.kind # "none"
  /\ Handled("timeout", net_ansgen_timeout(ansgen, Qmem))
  /\ UNCHANGED mc_log

AnsgenSetDesc(val) ==
  /\ crashed = NoCrash /\ ansgen.kind # "none"
  /\ Handled("set_desc", net_ansgen_set_desc(ansgen, Qmem, val))
  /\ UNCHANGED mc_log

(***************************************************************************)
(* EXECUTION START AND TEARDOWN                                            *)
(***************************************************************************)

RunInitState ==
  /\ net_queries = StaticQueue
  /\ finish_pc = "idle"

\* php_queries_start
PhpQueriesStart ==
  /\ finish_pc = "idle"
  /\ QmemInit
  /\ finish_pc' = "running"
  /\ UNCHANGED net_queries

\* unalloc_net_query that leaves the record in the queue
unalloc_net_query_keeps_query(Q, query) == Q

\* unalloc_net_query
unalloc_net_query(Q, query) == undo_create(Q)

\* engine_rpc_send_query: create_net_query, then create_slot, and
\* unalloc_net_query when no slot is left; the slot id is written into the
\* record
EngineRpcSendQuery ==
  /\ crashed = NoCrash
  /\ finish_pc = "running"
  /\ LET r == create(net_queries)
     IN IF r.res = NoRec
        THEN /\ ret' = [op |-> "engine_rpc_send_query", res |-> -1]
             /\ UNCHANGED <<net_queries, slot_vars>>
        ELSE IF create_slot.res = -1
             THEN /\ net_queries' = unalloc_net_query(r.Q, r.res)
                  /\ ret' = [op |-> "engine_rpc_send_query", res |-> -1]
                  /\ UNCHANGED slot_vars
             ELSE /\ net_queries' = [r.Q EXCEPT !.q[r.res] = create_slot.res]
                  /\ end_slot_id' = create_slot.end
                  /\ issued' = issued \cup {create_slot.res}
                  /\ ret' = [op |-> "engine_rpc_send_query", res |-> create_slot.res]
                  /\ UNCHANGED <<begin_slot_id, reseeded>>
  /\ UNCHANGED <<finish_pc, crashed>>

\* alloc_net_event: refused for a slot that is not valid, else
\* net_events.create() and the writes into the record
AllocNetEvent(slot_id) ==
  /\ finish_pc = "running"
  /\ \/ /\ crashed = NoCrash
        /\ ~is_valid_slot(slot_id)
        /\ ret' = [op |-> "alloc_net_event", res |-> 0]
        /\ UNCHANGED <<queue_vars, crashed>>
     \/ /\ is_valid_slot(slot_id)
        /\ QCreate
  /\ UNCHANGED <<run_vars>>

\* the size a running script asks of the allocator: more than a static page
\* holds, so that each call acquires a page
RunAllocSizes == {max_mem - static_pages_n * page_size}

\* a qmem_malloc by the running script
RunQmemMalloc(n) ==
  /\ finish_pc = "running"
  /\ QmemMalloc(n, FALSE, NewPageId(Qmem))
  /\ UNCHANGED run_vars

\* php_queries_finish, one call at a time: finish_pc is the line to run next
FinishQmemClear ==
  /\ finish_pc = "running"
  /\ QmemClear
  /\ finish_pc' = "line_1084"
  /\ UNCHANGED net_queries

FinishClearSlots(seed) ==
  /\ finish_pc = "line_1084"
  /\ ClearSlots(seed)
  /\ finish_pc' = "line_1085"
  /\ UNCHANGED net_queries

FinishNetEventsClear ==
  /\ finish_pc = "line_1085"
  /\ QClear
  /\ finish_pc' = "line_1086"
  /\ UNCHANGED net_queries

FinishNetQueriesClear ==
  /\ crashed = NoCrash
  /\ finish_pc = "line_1086"
  /\ net_queries' = clear(net_queries)
  /\ finish_pc' = "idle"
  /\ ret' = [op |-> "net_queries.clear"]
  /\ UNCHANGED crashed

\* pop_net_query: the engine takes the oldest query
PopNetQuery ==
  /\ crashed = NoCrash
  /\ LET r == pop(net_queries)
     IN /\ net_queries' = r.Q
        /\ ret' = [op |-> "pop_net_query", res |-> r.res]
  /\ UNCHANGED <<finish_pc, crashed>>

(***************************************************************************)
(* RPC EVENTS                                                              *)
(***************************************************************************)

\* the slot ids, payload lengths and error codes the event constructors are
\* tried with
EventSlotIds == 0 .. 1
EventLens == {0, 1}
EventErrorCodes == {-1}

\* the records of the queue from the oldest to the newest
LiveCells(Q) == [i \in 1 .. Q.cnt |-> Q.q[(Q.begin + i - 1) % N]]

\* dl_allocate_safe: TRUE for a buffer, FALSE for nullptr; `room` is whether
\* the script allocator has the memory (and the memory limit flag is clear)
dl_allocate_safe(size, room) == size # 0 /\ room

\* alloc_net_event: status 0 for a slot that is not valid, -2 for a full
\* queue, else 1 with slot_id and type written into the new record
alloc_net_event(Q, slot_id, type) ==
  IF ~is_valid_slot(slot_id)
  THEN [Q |-> Q, status |-> 0, event |-> NoRec]
  ELSE LET r == create(Q)
       IN IF r.res = NoRec
          THEN [Q |-> r.Q, status |-> -2, event |-> NoRec]
          ELSE [Q |-> [r.Q EXCEPT !.q[r.res] = [slot_id |-> slot_id, type |-> type, data |-> 0]],
                status |-> 1, event |-> r.res]

\* unalloc_net_event that leaves the record in the queue
unalloc_net_event_keeps_event(Q, event) == Q

\* unalloc_net_event
unalloc_net_event(Q, event) == undo_create(Q)

\* create_rpc_error_event
create_rpc_error_event(Q, slot_id, error_code) ==
  LET a == alloc_net_event(Q, slot_id, "ne_rpc_error")
  IN IF a.status <= 0
     THEN [Q |-> a.Q, status |-> a.status, event |-> NoRec]
     ELSE [Q |-> [a.Q EXCEPT !.q[a.event].data = error_code],
           status |-> 1, event |-> a.event]

\* create_rpc_answer_event up to its assert on res
create_rpc_answer_event(Q, slot_id, len, room) ==
  LET a == alloc_net_event(Q, slot_id, "ne_rpc_answer")
  IN IF a.status <= 0
     THEN [Q |-> a.Q, status |-> a.status, event |-> NoRec]
     ELSE IF len # 0 /\ ~dl_allocate_safe(len, room)
          THEN [Q |-> unalloc_net_event(a.Q, a.event), status |-> -1, event |-> NoRec]
          ELSE [Q |-> [a.Q EXCEPT !.q[a.event].data = len],
                status |-> 1, event |-> a.event]

\* what a call of an event constructor leaves behind
EventCall(op, slot_id, r) ==
  /\ net_events' = r.Q
  /\ ret' = [op |-> op, slot_id |-> slot_id, status |-> r.status, event |-> r.event]
  /\ IF r.status = 1
     THEN /\ ev_stamp' = ev_stamp + 1
          /\ ev_hist' = Append(ev_hist, [id |-> ev_stamp + 1, at |-> r.event])
          /\ ev_out' = ev_out + 1
     ELSE UNCHANGED <<ev_stamp, ev_hist, ev_out>>
  /\ UNCHANGED <<ev_undone, ev_misused>>

CreateRpcErrorEvent(slot_id, error_code) ==
  /\ crashed = NoCrash
  /\ ev_stamp < MaxStamp
  /\ EventCall("create_rpc_error_event", slot_id,
               create_rpc_error_event(net_events, slot_id, error_code))
  /\ UNCHANGED crashed

\* create_rpc_answer_event; res_given is whether the caller passed a res
\* pointer, which the function asserts before returning 1
CreateRpcAnswerEvent(slot_id, len, room, res_given) ==
  /\ crashed = NoCrash
  /\ ev_stamp < MaxStamp
  /\ LET r == create_rpc_answer_event(net_events, slot_id, len, room)
     IN /\ EventCall("create_rpc_answer_event", slot_id, r)
        /\ IF r.status = 1 /\ ~res_given
           THEN Crash("res != nullptr")
           ELSE UNCHANGED crashed

(***************************************************************************)
(* LAST NETWORK ERROR                                                      *)
(***************************************************************************)

MAX_NET_ERROR_LEN == 128

\* the longest error string tried
MaxErrLen == 130

\* error string lengths around the limit
ErrLens == {0, 1, MAX_NET_ERROR_LEN - 1, MAX_NET_ERROR_LEN,
            MAX_NET_ERROR_LEN + 1, MaxErrLen}

\* a C string of `len` bytes, none of them NUL, starting with byte `first`
ErrStr(len, first) ==
  [i \in 1 .. len |-> IF (i + first) % 2 = 0 THEN "a" ELSE "b"]

\* php_net_query_packet_answer_t as the callers read it: state, res
\* (nullptr or a C string) and whether chain is set
NetAnswer ==
  [state : {"nq_error", "nq_ok"},
   res : {NullRes} \cup {Lit(ErrStr(len, first)) : len \in ErrLens, first \in 0 .. 1},
   chain : {-1, 0}]

\* the C string in last_net_error[] after save_last_net_error(s)
save_last_net_error(s) ==
  IF s = NullRes
  THEN <<>>
  ELSE LET l == IF Len(s.s) >= MAX_NET_ERROR_LEN
                THEN MAX_NET_ERROR_LEN - 1
                ELSE Len(s.s)
       IN  SubSeq(s.s, 1, l)

\* static storage is zero-filled
NetErrInitState == last_net_error = <<>>

\* engine_mc_run_query once php_net_query_packet has returned `res`
EngineMcRunQuery(res) ==
  /\ crashed = NoCrash
  /\ ret' = [op |-> "engine_mc_run_query", res |-> res]
  /\ IF res.state = "nq_error"
     THEN last_net_error' = save_last_net_error(res.res) /\ UNCHANGED crashed
     ELSE /\ crashed' = IF res.res = NullRes THEN "res->res != nullptr" ELSE crashed
          /\ UNCHANGED last_net_error

\* engine_sql_run_query once php_net_query_packet has returned `res`
EngineSqlRunQuery(res) ==
  /\ crashed = NoCrash
  /\ ret' = [op |-> "engine_sql_run_query", res |-> res]
  /\ IF res.state = "nq_error"
     THEN last_net_error' = save_last_net_error(res.res) /\ UNCHANGED crashed
     ELSE /\ crashed' = IF res.chain = -1 THEN "res->chain != nullptr" ELSE crashed
          /\ UNCHANGED last_net_error

(***************************************************************************)
(* PENDING RPC QUERIES                                                     *)
(***************************************************************************)

\* bounds of the exploration
MaxQueryId == 2
MaxFetcher == 2

\* RpcQuery: query_id, tl_function_name and the result_fetcher it owns
RpcQuery == [query_id : 1 .. MaxQueryId, tl_function_name : {"f", "g"},
             result_fetcher : 1 .. MaxFetcher]

\* the empty class_instance
NoQuery == [query_id |-> 0]

\* queries_ is an array keyed by query_id: a function on the pending ids
save(Qs, query) ==
  [id \in DOMAIN Qs \cup {query.query_id} |->
     IF id = query.query_id THEN query ELSE Qs[id]]

\* withdraw leaving the query in the array
withdraw_keeps_entry(Qs, query_id) ==
  IF query_id \in DOMAIN Qs
  THEN [Qs |-> Qs, res |-> Qs[query_id]]
  ELSE [Qs |-> Qs, res |-> NoQuery]

\* withdraw of an unknown id dropping every pending query
withdraw_unknown_resets(Qs, query_id) ==
  IF query_id \in DOMAIN Qs
  THEN [Qs |-> [id \in DOMAIN Qs \ {query_id} |-> Qs[id]], res |-> Qs[query_id]]
  ELSE [Qs |-> <<>>, res |-> NoQuery]

withdraw(Qs, query_id) ==
  IF query_id \in DOMAIN Qs
  THEN [Qs |-> [id \in DOMAIN Qs \ {query_id} |-> Qs[id]], res |-> Qs[query_id]]
  ELSE [Qs |-> Qs, res |-> NoQuery]

hard_reset == <<>>

count(Qs) == Cardinality(DOMAIN Qs)

RpcInitState ==
  /\ queries_ = <<>>
  /\ rpc_first = <<>>
  /\ rpc_resaved = {}

RpcSave(query) ==
  /\ crashed = NoCrash
  /\ queries_' = save(queries_, query)
  /\ IF query.query_id \in DOMAIN queries_
     THEN rpc_resaved' = rpc_resaved \cup {query.query_id} /\ UNCHANGED rpc_first
     ELSE rpc_first' = save(rpc_first, query) /\ UNCHANGED rpc_resaved
  /\ ret' = [op |-> "save", query |-> query]
  /\ UNCHANGED crashed

RpcWithdraw(query_id) ==
  /\ crashed = NoCrash
  /\ queries_' = withdraw(queries_, query_id).Qs
  /\ rpc_first' = [id \in DOMAIN rpc_first \ {query_id} |-> rpc_first[id]]
  /\ rpc_resaved' = rpc_resaved \ {query_id}
  /\ ret' = [op |-> "withdraw", query_id |-> query_id,
             res |-> withdraw(queries_, query_id).res]
  /\ UNCHANGED crashed

RpcHardReset ==
  /\ crashed = NoCrash
  /\ queries_' = hard_reset
  /\ rpc_first' = <<>>
  /\ rpc_resaved' = {}
  /\ ret' = [op |-> "hard_reset"]
  /\ UNCHANGED crashed

RpcCount ==
  /\ crashed = NoCrash
  /\ ret' = [op |-> "count", res |-> count(queries_)]
  /\ UNCHANGED <<rpc_vars, crashed>>

(***************************************************************************)
(* SPECIFICATIONS                                                          *)
(***************************************************************************)

GenIdle == ansgen = NoAnsgen /\ mc_log = <<>>

\* the state after static initialization and init_drivers
Init ==
  /\ QmemInitState /\ SlotInitState(1) /\ QueueInitState /\ GenIdle
  /\ RunInitState /\ RpcInitState /\ NetErrInitState
  /\ ret = NoRet /\ crashed = NoCrash

InitSlots ==
  /\ QmemInitState /\ QueueInitState /\ GenIdle
  /\ RunInitState /\ RpcInitState /\ NetErrInitState
  /\ \E seed \in SlotSeeds : SlotInitState(seed)
  /\ ret = NoRet /\ crashed = NoCrash

\* the allocator alone
QmemNext ==
  \/ QmemInit /\ UNCHANGED <<run_vars, rpc_vars, slot_vars, queue_vars, gen_vars, err_vars>>
  \/ QmemInitRejected /\ UNCHANGED <<run_vars, rpc_vars, slot_vars, queue_vars, gen_vars, err_vars>>
  \/ \E n \in AllocSizes :
       QmemMalloc(n, FALSE, NewPageId(Qmem)) /\ UNCHANGED <<run_vars, rpc_vars, slot_vars, queue_vars, gen_vars, err_vars>>
  \/ QmemMalloc(page_size \div AllocParts, TRUE, NewPageId(Qmem))
       /\ UNCHANGED <<run_vars, rpc_vars, slot_vars, queue_vars, gen_vars, err_vars>>
  \/ \E n \in AllocSizes :
       QmemMallocTmp(n, NewPageId(Qmem)) /\ UNCHANGED <<run_vars, rpc_vars, slot_vars, queue_vars, gen_vars, err_vars>>
  \/ QmemFreePtrs /\ UNCHANGED <<run_vars, rpc_vars, slot_vars, queue_vars, gen_vars, err_vars>>
  \/ QmemClear /\ UNCHANGED <<run_vars, rpc_vars, slot_vars, queue_vars, gen_vars, err_vars>>
  \/ QmemClearRejected /\ UNCHANGED <<run_vars, rpc_vars, slot_vars, queue_vars, gen_vars, err_vars>>

SpecQmem == Init /\ [][QmemNext]_vars

\* one answer generator on top of the allocator: it is created, fed and
\* abandoned while the pool is initialized and reclaimed
AnsgenNext ==
  \/ QmemInit /\ UNCHANGED <<run_vars, rpc_vars, slot_vars, queue_vars, gen_vars, err_vars>>
  \/ QmemFreePtrs /\ UNCHANGED <<run_vars, rpc_vars, slot_vars, queue_vars, gen_vars, err_vars>>
  \/ QmemClear /\ UNCHANGED <<run_vars, rpc_vars, slot_vars, queue_vars, gen_vars, err_vars>>
  \/ McCreate /\ UNCHANGED <<run_vars, rpc_vars, slot_vars, queue_vars, err_vars>>
  \/ SqlCreate /\ UNCHANGED <<run_vars, rpc_vars, slot_vars, queue_vars, err_vars>>
  \/ \E reader \in Frags : McValue(reader) /\ UNCHANGED <<run_vars, rpc_vars, slot_vars, queue_vars, err_vars>>
  \/ McEnd /\ UNCHANGED <<run_vars, rpc_vars, slot_vars, queue_vars, err_vars>>
  \/ \E is_stored \in BOOLEAN : McXStored(is_stored) /\ UNCHANGED <<run_vars, rpc_vars, slot_vars, queue_vars, err_vars>>
  \/ \E reader \in Frags : McOther(reader) /\ UNCHANGED <<run_vars, rpc_vars, slot_vars, queue_vars, err_vars>>
  \/ \E reader \in Frags : McVersion(reader) /\ UNCHANGED <<run_vars, rpc_vars, slot_vars, queue_vars, err_vars>>
  \/ \E query_type \in {0, 1} : McSetQueryType(query_type) /\ UNCHANGED <<run_vars, rpc_vars, slot_vars, queue_vars, err_vars>>
  \/ \E writer \in {"nullptr", "writer"} :
       SqlSetWriter(writer) /\ UNCHANGED <<run_vars, rpc_vars, slot_vars, queue_vars, err_vars>>
  \/ SqlReady /\ UNCHANGED <<run_vars, rpc_vars, slot_vars, queue_vars, err_vars>>
  \/ \E reader \in Frags : SqlPacket(reader) /\ UNCHANGED <<run_vars, rpc_vars, slot_vars, queue_vars, err_vars>>
  \/ SqlDone /\ UNCHANGED <<run_vars, rpc_vars, slot_vars, queue_vars, err_vars>>
  \/ AnsgenError("error") /\ UNCHANGED <<run_vars, rpc_vars, slot_vars, queue_vars, err_vars>>
  \/ AnsgenTimeout /\ UNCHANGED <<run_vars, rpc_vars, slot_vars, queue_vars, err_vars>>
  \/ AnsgenSetDesc("desc") /\ UNCHANGED <<run_vars, rpc_vars, slot_vars, queue_vars, err_vars>>

SpecAnsgen == Init /\ [][AnsgenNext]_vars

\* the slot window alone
SlotNext ==
  \/ CreateSlot /\ UNCHANGED <<run_vars, rpc_vars, qmem_vars, queue_vars, gen_vars, err_vars>>
  \/ \E slot_id \in SlotIds :
       IsValidSlot(slot_id) /\ UNCHANGED <<run_vars, rpc_vars, qmem_vars, queue_vars, gen_vars, err_vars>>
  \/ \E seed \in SlotSeeds : ClearSlots(seed) /\ UNCHANGED <<run_vars, rpc_vars, qmem_vars, queue_vars, gen_vars, err_vars>>

SpecSlots == InitSlots /\ [][SlotNext]_vars

\* the event constructors over the slot window and the event queue
EventNext ==
  \/ CreateSlot /\ UNCHANGED <<run_vars, rpc_vars, qmem_vars, queue_vars, gen_vars, err_vars>>
  \/ \E slot_id \in EventSlotIds, error_code \in EventErrorCodes :
       CreateRpcErrorEvent(slot_id, error_code) /\ UNCHANGED <<run_vars, rpc_vars, qmem_vars, slot_vars, gen_vars, err_vars>>
  \/ \E slot_id \in EventSlotIds, len \in EventLens, room \in BOOLEAN, res_given \in BOOLEAN :
       CreateRpcAnswerEvent(slot_id, len, room, res_given) /\ UNCHANGED <<run_vars, rpc_vars, qmem_vars, slot_vars, gen_vars, err_vars>>
  \/ QPop /\ UNCHANGED <<run_vars, rpc_vars, qmem_vars, slot_vars, gen_vars, err_vars>>

SpecEvents == Init /\ [][EventNext]_vars

\* the allocator alone, with malloc returning any address that is not in use
QmemAddrNext ==
  \/ QmemInit /\ UNCHANGED <<run_vars, rpc_vars, slot_vars, queue_vars, gen_vars, err_vars>>
  \/ QmemInitRejected /\ UNCHANGED <<run_vars, rpc_vars, slot_vars, queue_vars, gen_vars, err_vars>>
  \/ \E n \in AllocSizes, id \in HeapIds :
       QmemMalloc(n, FALSE, id) /\ UNCHANGED <<run_vars, rpc_vars, slot_vars, queue_vars, gen_vars, err_vars>>
  \/ \E n \in AllocSizes, id \in HeapIds :
       QmemMallocTmp(n, id) /\ UNCHANGED <<run_vars, rpc_vars, slot_vars, queue_vars, gen_vars, err_vars>>
  \/ QmemFreePtrs /\ UNCHANGED <<run_vars, rpc_vars, slot_vars, queue_vars, gen_vars, err_vars>>
  \/ QmemClear /\ UNCHANGED <<run_vars, rpc_vars, slot_vars, queue_vars, gen_vars, err_vars>>
  \/ QmemClearRejected /\ UNCHANGED <<run_vars, rpc_vars, slot_vars, queue_vars, gen_vars, err_vars>>

SpecQmemAddr == Init /\ [][QmemAddrNext]_vars

\* scripts sending queries that the engine takes, from start to teardown
QueryNext ==
  \/ PhpQueriesStart /\ UNCHANGED <<slot_vars, queue_vars, gen_vars, rpc_vars, err_vars>>
  \/ EngineRpcSendQuery /\ UNCHANGED <<qmem_vars, queue_vars, gen_vars, rpc_vars, err_vars>>
  \/ PopNetQuery /\ UNCHANGED <<qmem_vars, slot_vars, queue_vars, gen_vars, rpc_vars, err_vars>>
  \/ FinishQmemClear /\ UNCHANGED <<slot_vars, queue_vars, gen_vars, rpc_vars, err_vars>>
  \/ \E seed \in SlotSeeds :
       FinishClearSlots(seed) /\ UNCHANGED <<qmem_vars, queue_vars, gen_vars, rpc_vars, err_vars>>
  \/ FinishNetEventsClear /\ UNCHANGED <<qmem_vars, slot_vars, gen_vars, rpc_vars, err_vars>>
  \/ FinishNetQueriesClear
       /\ UNCHANGED <<qmem_vars, slot_vars, queue_vars, gen_vars, rpc_vars, err_vars>>

SpecQueries == Init /\ [][QueryNext]_vars

\* one ring queue alone
QueueNext ==
  \/ QCreate /\ UNCHANGED <<run_vars, rpc_vars, qmem_vars, slot_vars, gen_vars, err_vars>>
  \/ \E event \in 0 .. (N - 1) :
       QUndoCreate(event) /\ UNCHANGED <<run_vars, rpc_vars, qmem_vars, slot_vars, gen_vars, err_vars>>
  \/ \E event \in 0 .. (N - 1) :
       QUndoCreateRejected(event) /\ UNCHANGED <<run_vars, rpc_vars, qmem_vars, slot_vars, gen_vars, err_vars>>
  \/ QPop /\ UNCHANGED <<run_vars, rpc_vars, qmem_vars, slot_vars, gen_vars, err_vars>>
  \/ QClear /\ UNCHANGED <<run_vars, rpc_vars, qmem_vars, slot_vars, gen_vars, err_vars>>

SpecQueue == Init /\ [][QueueNext]_vars

\* one execution after the other: start, queries and events, teardown
RunNext ==
  \/ PhpQueriesStart /\ UNCHANGED <<slot_vars, queue_vars, gen_vars, rpc_vars, err_vars>>
  \/ EngineRpcSendQuery /\ UNCHANGED <<qmem_vars, queue_vars, gen_vars, rpc_vars, err_vars>>
  \/ \E slot_id \in SlotIds :
       AllocNetEvent(slot_id) /\ UNCHANGED <<qmem_vars, slot_vars, gen_vars, rpc_vars, err_vars>>
  \/ \E n \in RunAllocSizes :
       RunQmemMalloc(n)
         /\ UNCHANGED <<slot_vars, queue_vars, gen_vars, rpc_vars, err_vars>>
  \/ FinishQmemClear /\ UNCHANGED <<slot_vars, queue_vars, gen_vars, rpc_vars, err_vars>>
  \/ \E seed \in SlotSeeds :
       FinishClearSlots(seed) /\ UNCHANGED <<qmem_vars, queue_vars, gen_vars, rpc_vars, err_vars>>
  \/ FinishNetEventsClear /\ UNCHANGED <<qmem_vars, slot_vars, gen_vars, rpc_vars, err_vars>>
  \/ FinishNetQueriesClear
       /\ UNCHANGED <<qmem_vars, slot_vars, queue_vars, gen_vars, rpc_vars, err_vars>>

SpecRun == Init /\ [][RunNext]_vars

\* the pending query registry alone
RpcNext ==
  \/ \E query \in RpcQuery :
       RpcSave(query) /\ UNCHANGED <<qmem_vars, slot_vars, queue_vars, gen_vars, run_vars, err_vars>>
  \/ \E query_id \in 1 .. MaxQueryId :
       RpcWithdraw(query_id)
         /\ UNCHANGED <<qmem_vars, slot_vars, queue_vars, gen_vars, run_vars, err_vars>>
  \/ RpcHardReset /\ UNCHANGED <<qmem_vars, slot_vars, queue_vars, gen_vars, run_vars, err_vars>>
  \/ RpcCount /\ UNCHANGED <<qmem_vars, slot_vars, queue_vars, gen_vars, run_vars, err_vars>>

SpecRpc == Init /\ [][RpcNext]_vars

\* the two query runners alone
NetErrNext ==
  \/ \E res \in NetAnswer :
       EngineMcRunQuery(res)
         /\ UNCHANGED <<qmem_vars, slot_vars, queue_vars, gen_vars, run_vars, rpc_vars>>
  \/ \E res \in NetAnswer :
       EngineSqlRunQuery(res)
         /\ UNCHANGED <<qmem_vars, slot_vars, queue_vars, gen_vars, run_vars, rpc_vars>>

SpecNetError == Init /\ [][NetErrNext]_vars

(***************************************************************************)
(* PROPERTIES: ALLOCATOR                                                   *)
(***************************************************************************)

\* the sizes of a sequence of blocks, summed
SizeSum(s) ==
  LET sm[i \in 0 .. Len(s)] == IF i = 0 THEN 0 ELSE sm[i - 1] + s[i].size
  IN sm[Len(s)]

FreeTotal == SizeSum(left)
PagesTotal == SizeSum(pages)

\* two address ranges share a byte
Overlap(p1, s1, p2, s2) ==
  /\ s1 > 0 /\ s2 > 0
  /\ p1[1] = p2[1]
  /\ p1[2] < p2[2] + s2
  /\ p2[2] < p1[2] + s1

\* C3: on an initialized pool, after every allocate, zero_allocate,
\* allocate_peek and soft_reclaim that returned, used_mem plus the sizes of
\* the free blocks equals the reserved bytes the pool accounts (cur_mem).
AllocatorOps == {"qmem_malloc", "qmem_malloc0", "qmem_malloc_tmp", "qmem_free_ptrs"}

C3_UsedPlusFreeIsReserved ==
  (state = "st_inited" /\ crashed = NoCrash /\ ret.op \in AllocatorOps)
    => used_mem + FreeTotal = cur_mem

\* C3, reading "reserved bytes" as the sizes of the pages in the page table
C3_UsedPlusFreeIsPagesTotal ==
  (state = "st_inited" /\ crashed = NoCrash /\ ret.op \in AllocatorOps)
    => used_mem + FreeTotal = PagesTotal

FreeDisjoint ==
  \A i, j \in 1 .. Len(left) :
    i # j => ~Overlap(left[i].ptr, left[i].size, left[j].ptr, left[j].size)

LiveDisjoint ==
  \A a, b \in live : a # b => ~Overlap(a.ptr, a.size, b.ptr, b.size)

LiveFreeDisjoint ==
  \A a \in live : \A i \in 1 .. Len(left) :
    ~Overlap(a.ptr, a.size, left[i].ptr, left[i].size)

\* C4: on an initialized pool the free blocks are pairwise disjoint, the
\* blocks handed out by qmem_malloc / qmem_malloc0 since qmem_init or since
\* the last qmem_free_ptrs that rebuilt the free index are pairwise disjoint,
\* and no handed-out block overlaps a free block.
C4_BlocksDisjoint ==
  state = "st_inited" => FreeDisjoint /\ LiveDisjoint /\ LiveFreeDisjoint

\* two blocks cut from one page next to a free rest of that page, a page
\* acquired on the way
C4_Witness ==
  /\ state = "st_inited" /\ crashed = NoCrash
  /\ Len(pages) > static_pages_n
  /\ \E a, b \in live :
       /\ a # b /\ a.size > 0 /\ b.size > 0 /\ a.ptr[1] = b.ptr[1]
       /\ \E i \in 1 .. Len(left) : left[i].ptr[1] = a.ptr[1]

(***************************************************************************)
(* PROPERTIES: SLOT WINDOW                                                 *)
(***************************************************************************)

\* C5: after any sequence of create_slot and clear_slots calls, reseeding
\* ones included, is_valid_slot(s) holds exactly for the ids create_slot
\* returned since the most recent clear_slots.
C5_ValidIffIssued == \A s \in SlotIds : is_valid_slot(s) <=> s \in issued

\* after a reseeding clear_slots an issued id was found valid
C5_Witness ==
  /\ reseeded /\ issued # {}
  /\ ret.op = "is_valid_slot" /\ ret.res /\ ret.slot_id \in issued

\* C22: whenever create_slot fails, a clear_slots followed by another
\* create_slot succeeds and returns a valid slot id.
C22_RetryAfterClearSucceeds ==
  (ret.op = "create_slot" /\ ret.retry)
    => /\ ret.res # -1
       /\ is_valid_slot(ret.res)

\* the retry after a failed create_slot and a clear_slots handed out an id
C22_Witness ==
  /\ ret.op = "create_slot" /\ ret.retry
  /\ ret.res \in SlotSeeds /\ reseeded /\ issued = {ret.res}

(***************************************************************************)
(* PROPERTIES: RING QUEUE                                                  *)
(***************************************************************************)

\* C6: with no undo_create since construction or the last clear, pop returns
\* the oldest record that was created and not yet popped (its position and
\* its content), and returns nullptr exactly when no such record is left.
C6_PopIsFifo ==
  [][(QPop /\ ~ev_undone) =>
       IF ev_hist = <<>>
       THEN ret'.res = NoRec
       ELSE ret'.res = ev_hist[1].at /\ ret'.rec = ev_hist[1].id]_vars

\* a pop that took a record out of a queue whose records wrap around the end
\* of the buffer
C6_Witness ==
  /\ ~ev_undone /\ crashed = NoCrash
  /\ ret.op = "pop" /\ ret.res # NoRec
  /\ net_events.end < net_events.begin
  /\ ev_hist # <<>>

\* the records from begin on, in ring order
RingOrder(Q) == [i \in 1 .. N |-> Q.q[(Q.begin + i - 1) % N]]

\* C7: create returns nullptr exactly when N records are created and neither
\* popped nor undone; a refused create leaves begin, end and cnt as they
\* were, and the N records held are, from begin on, the unpopped records in
\* creation order.
C7_CreateFailsWhenFull ==
  [][QCreate =>
       /\ ret'.res = NoRec <=> Len(ev_hist) = N
       /\ ret'.res = NoRec =>
            /\ QShape(net_events') = QShape(net_events)
            /\ \A i \in 1 .. N : RingOrder(net_events')[i] = ev_hist[i].id]_vars

\* C8: undo_create of the handle that the create just before it returned puts
\* begin, end and cnt back to their values before that create.
C8_UndoRestores ==
  (ret.op = "undo_create" /\ ret.after_create /\ crashed = NoCrash)
    => QShape(net_events) = ret.before

\* the undone create had wrapped end around to 0
C8_Witness ==
  /\ ret.op = "undo_create" /\ ret.after_create /\ crashed = NoCrash
  /\ net_events.end = N - 1
  /\ net_events.cnt > 0

\* C9: undo_create changes the queue only for the newest record that was
\* created and neither popped nor undone; with any other handle it is
\* stopped by its assert and begin, end and cnt stay as they were.
C9_UndoOnlyNewestUnpopped ==
  [][\A event \in 0 .. (N - 1) :
       ((QUndoCreate(event) \/ QUndoCreateRejected(event)) /\ ~NewestUnpopped(event))
         => (crashed' # NoCrash /\ net_events' = net_events)]_vars

(***************************************************************************)
(* PROPERTIES: ANSWER GENERATORS AND THE GENERATION                        *)
(***************************************************************************)

\* what the engine hands to a generator
DeliveryOps == {"mc_value", "mc_end", "mc_xstored", "mc_other", "mc_version",
                "sql_packet", "sql_done", "error", "timeout", "set_desc"}

\* C1: whatever is delivered to a generator (memcached or SQL) whose
\* captured generation differs from qmem_generation, the answer record stays
\* as it was, the allocator is not touched and neither the string buffer nor
\* the chain grows.
C1_DeadGeneratorIsInert ==
  [][(/\ ansgen.kind # "none"
      /\ ansgen.base.qmem_req_generation # qmem_generation
      /\ ret'.op \in DeliveryOps)
       => /\ ansgen'.base.ans = ansgen.base.ans
          /\ UNCHANGED qmem_vars
          /\ ansgen.kind = "mc" => ansgen'.str_buf = ansgen.str_buf
          /\ ansgen.kind = "sql" => ansgen'.chain = ansgen.chain]_vars

\* a finishing fragment reached a generator after a reclaim: it is done and
\* its answer is still the zeroed record
C1_Witness ==
  /\ ansgen.kind # "none" /\ crashed = NoCrash
  /\ ansgen.base.qmem_req_generation >= 0
  /\ ansgen.base.qmem_req_generation < qmem_generation
  /\ ret.op \in {"mc_end", "mc_xstored", "mc_other", "sql_done"}
  /\ ansgen.base.state = "st_ansgen_done"
  /\ ansgen.base.ans = ZeroAnswer

\* C2: qmem_generation never decreases; each qmem_free_ptrs and each
\* qmem_clear that passes its assert raises it by exactly one, qmem_free_ptrs
\* also when it rebuilds nothing; the generation a generator captured never
\* grows, so a generator that exists at such a call is behind the counter
\* after it and stays behind: it is not alive from then on.
C2_ReclaimBumpsGeneration ==
  [][/\ qmem_generation' >= qmem_generation
     /\ ansgen.kind # "none"
          => /\ ansgen'.kind = ansgen.kind
             /\ ansgen'.base.qmem_req_generation <= ansgen.base.qmem_req_generation
             /\ ansgen.base.qmem_req_generation <= qmem_generation
     /\ (ret'.op \in {"qmem_free_ptrs", "qmem_clear"} /\ crashed' = NoCrash)
          => /\ qmem_generation' = qmem_generation + 1
             /\ ansgen.kind # "none"
                  => ansgen'.base.qmem_req_generation < qmem_generation']_vars

\* a qmem_free_ptrs that rebuilt nothing has outdated a generator
C2_Witness ==
  /\ ret.op = "qmem_free_ptrs" /\ used_mem > 0
  /\ ansgen.kind # "none"
  /\ ansgen.base.qmem_req_generation = qmem_generation - 1

Flatten(ss) ==
  LET fl[i \in 0 .. Len(ss)] == IF i = 0 THEN <<>> ELSE fl[i - 1] \o ss[i]
  IN fl[Len(ss)]

\* C10: when end reaches an alive memcached generator in ap_get, the
\* generator is done and its answer is ok, holds the value fragments in
\* delivery order followed by "END\r\n", and has their total length plus 5.
C10_GetAnswerIsValuesThenEnd ==
  (/\ ansgen.kind = "mc" /\ crashed = NoCrash
   /\ ret.op = "mc_end" /\ ansgen.state = "ap_get"
   /\ net_ansgen_is_alive(ansgen))
    => /\ ansgen.base.state = "st_ansgen_done"
       /\ ansgen.base.ans.state = "nq_ok"
       /\ ansgen.base.ans.res.kind = "buf"
       /\ ansgen.base.ans.res.bytes = Flatten(mc_log) \o <<"E", "N", "D", "\r", "\n">>
       /\ ansgen.base.ans.res_len = Len(Flatten(mc_log)) + 5

\* "ab", "cd", end
C10_Witness ==
  /\ ansgen.kind = "mc" /\ crashed = NoCrash
  /\ ret.op = "mc_end" /\ net_ansgen_is_alive(ansgen)
  /\ mc_log = << <<"a", "b">>, <<"c", "d">> >>
  /\ ansgen.base.state = "st_ansgen_done"
  /\ ansgen.base.ans.res_len = 9

\* the sub-state each kind of memcached fragment belongs to, and the message
\* of the error raised for it
FragmentState ==
  [mc_value |-> "ap_get", mc_end |-> "ap_get", mc_xstored |-> "ap_store",
   mc_other |-> "ap_other", mc_version |-> "ap_version"]
FragmentMessage ==
  [mc_value |-> "Unexpected VALUE", mc_end |-> "Unexpected END",
   mc_xstored |-> "Unexpected STORED", mc_other |-> "Unexpected \"other\" command",
   mc_version |-> "Unexpected VERSION"]
FragmentOps == {"mc_value", "mc_end", "mc_xstored", "mc_other", "mc_version"}

\* C11: a fragment delivered to a waiting memcached generator that has
\* committed to the sub-state of another kind of fragment moves the base
\* state to st_ansgen_error and, if the generator is alive, makes the answer
\* an error whose message names the fragment.
C11_UnexpectedFragmentIsError ==
  [][(/\ ansgen.kind = "mc"
      /\ ansgen.base.state = "st_ansgen_wait"
      /\ ansgen.state # "ap_any"
      /\ ret'.op \in FragmentOps
      /\ ansgen.state # FragmentState[ret'.op])
       => /\ ansgen'.base.state = "st_ansgen_error"
          /\ ansgen.base.qmem_req_generation = qmem_generation
               => /\ ansgen'.base.ans.state = "nq_error"
                  /\ ansgen'.base.ans.res = Lit(FragmentMessage[ret'.op])]_vars

\* C12: once the base state of a generator is not st_ansgen_wait, no call
\* that the generator accepts (that passes its asserts) changes it.
C12_LeftWaitingIsTerminal ==
  [][(/\ ansgen.kind # "none"
      /\ ansgen.base.state # "st_ansgen_wait"
      /\ crashed' = NoCrash)
       => ansgen'.base.state = ansgen.base.state]_vars

\* C13: timeout on an alive waiting generator makes the answer an error
\* with the message "Timeout" and sets the captured generation to -1, a
\* value qmem_generation never takes; from then on the captured generation
\* stays -1 and no reclaim and no delivery changes the answer.
C13_TimeoutKillsForEver ==
  [][/\ qmem_generation >= 0 /\ qmem_generation' >= 0
     /\ (/\ ret'.op = "timeout" /\ crashed' = NoCrash
         /\ ansgen.base.qmem_req_generation = qmem_generation)
          => /\ ansgen'.base.qmem_req_generation = -1
             /\ ansgen'.base.ans.state = "nq_error"
             /\ ansgen'.base.ans.res = Lit("Timeout")
     /\ (ansgen.kind # "none" /\ ansgen.base.qmem_req_generation = -1)
          => /\ ansgen'.base.qmem_req_generation = -1
             /\ ansgen'.base.ans = ansgen.base.ans]_vars

\* a finishing fragment was delivered after a timeout and a reclaim, and the
\* answer is still the timeout
C13_Witness ==
  /\ ansgen.kind # "none" /\ crashed = NoCrash
  /\ ansgen.base.qmem_req_generation = -1
  /\ qmem_generation > 0
  /\ ret.op \in {"mc_end", "mc_xstored", "mc_other", "sql_done"}
  /\ ansgen.base.state = "st_ansgen_done"
  /\ ansgen.base.ans.state = "nq_error"
  /\ ansgen.base.ans.res = Lit("Timeout")

\* C14: a timeout accepted by a waiting generator leaves the base state
\* st_ansgen_timeout, which is neither st_ansgen_wait nor st_ansgen_error.
C14_TimeoutMovesToTimeout ==
  [][(/\ ansgen.kind # "none"
      /\ ret'.op = "timeout" /\ crashed' = NoCrash
      /\ ansgen.base.state = "st_ansgen_wait")
       => /\ ansgen'.base.state = "st_ansgen_timeout"
          /\ ansgen'.base.state \notin {"st_ansgen_wait", "st_ansgen_error"}]_vars

\* C15: error(val) is stopped by its assert unless the base state is
\* st_ansgen_wait; when accepted it leaves st_ansgen_error, and the answer
\* becomes the error val if the generator is alive and stays as it was
\* otherwise.
C15_ErrorWritesIffAlive ==
  [][ret'.op = "error" =>
       IF ansgen.base.state # "st_ansgen_wait"
       THEN crashed' # NoCrash /\ ansgen' = ansgen
       ELSE /\ crashed' = NoCrash
            /\ ansgen'.base.state = "st_ansgen_error"
            /\ ansgen'.base.ans =
                 IF ansgen.base.qmem_req_generation = qmem_generation
                 THEN [ansgen.base.ans EXCEPT !.state = "nq_error", !.res = Lit("error")]
                 ELSE ansgen.base.ans]_vars

\* an error accepted by a generator that a reclaim had outdated
C15_Witness ==
  /\ ansgen.kind # "none" /\ crashed = NoCrash
  /\ ret.op = "error"
  /\ ansgen.base.state = "st_ansgen_error"
  /\ ansgen.base.qmem_req_generation >= 0
  /\ ansgen.base.qmem_req_generation < qmem_generation
  /\ ansgen.base.ans = ZeroAnswer

(***************************************************************************)
(* PROPERTIES: ALLOCATOR CEILINGS                                          *)
(***************************************************************************)

\* C16: a qmem_malloc(n) called with the page table full and no free block
\* of n bytes fails with NOT ENOUGH MEMORY, adds no page, and leaves the
\* blocks handed out and the free index as they were; a qmem_malloc of
\* page_size bytes called with room in the page table succeeds.
C16_PageCeilingFailsCleanly ==
  [][ret'.op \in {"qmem_malloc", "qmem_malloc0"} =>
       /\ (Len(pages) = max_pages_n /\ lower_bound(left, ret'.n) = 0)
            => /\ ret'.ptr = NULL
               /\ crashed' = "NOT ENOUGH MEMORY"
               /\ pages' = pages /\ heap' = heap
               /\ live' = live /\ left' = left
       /\ (Len(pages) < max_pages_n /\ ret'.n = page_size)
            => /\ ret'.ptr # NULL
               /\ crashed' = NoCrash
               /\ [ptr |-> ret'.ptr, size |-> page_size] \in live']_vars

\* a page-sized request refused at the page ceiling while blocks are out
C16_Witness ==
  /\ ret.op = "qmem_malloc" /\ ret.n = page_size /\ ret.ptr = NULL
  /\ crashed = "NOT ENOUGH MEMORY"
  /\ state = "st_inited"
  /\ Len(pages) = max_pages_n
  /\ Cardinality(live) >= 2

\* C17: the pages of an initialized pool, static and acquired, never add up
\* to more than max_mem.
C17_PagesWithinMaxMem ==
  state = "st_inited" => PagesTotal <= max_mem

\* C18: a qmem_malloc that returns nullptr leaves the free index, the page
\* table, used_mem and the generation as they were.
C18_FailedMallocChangesNothing ==
  [][(ret'.op \in {"qmem_malloc", "qmem_malloc0"} /\ ret'.ptr = NULL)
       => UNCHANGED <<left, pages, used_mem, qmem_generation>>]_vars

\* the blocks of a free index, as a set
Blocks(L) == {L[i] : i \in 1 .. Len(L)}

\* C24: a qmem_malloc(n) called on the initialised pool while some free block
\* has at least n bytes acquires no page and takes a free block of the smallest size that is
\* >= n: it returns the start of that block, removes it from the free index
\* and registers the remainder (start + n, size - n) exactly when the
\* remainder is not empty.
C24_AllocateIsBestFit ==
  [][(/\ state = "st_inited"
      /\ ret'.op \in {"qmem_malloc", "qmem_malloc0"}
      /\ \E c \in Blocks(left) : c.size >= ret'.n)
       => /\ pages' = pages /\ heap' = heap
          /\ \E b \in Blocks(left) :
               /\ b.size >= ret'.n
               /\ \A c \in Blocks(left) : c.size >= ret'.n => b.size <= c.size
               /\ ret'.ptr = b.ptr
               /\ Blocks(left') =
                    (Blocks(left) \ {b}) \cup
                    (IF b.size > ret'.n
                     THEN {[size |-> b.size - ret'.n,
                            ptr |-> Ptr(b.ptr[1], b.ptr[2] + ret'.n)]}
                     ELSE {})
               /\ Len(left') = Len(left) - (IF b.size > ret'.n THEN 0 ELSE 1)]_vars

\* a block was split off the remainder of an earlier split while a whole
\* page was still free, and its own remainder was registered
C24_Witness ==
  /\ state = "st_inited"
  /\ ret.op = "qmem_malloc" /\ ret.ptr # NULL /\ ret.ptr[2] > 0
  /\ \E b \in Blocks(left) : b.size = page_size
  /\ \E b \in Blocks(left) :
       b.ptr = Ptr(ret.ptr[1], ret.ptr[2] + ret.n) /\ b.size < ret.n + 2

\* C25 as stated: qmem_malloc_tmp(n) is a non-committing read for every n:
\* the free index, used_mem, the page table and the generation are the same
\* after the call as before it.
C25_PeekChangesNothing ==
  [][(state = "st_inited" /\ ret'.op = "qmem_malloc_tmp")
       => UNCHANGED <<left, used_mem, pages, qmem_generation>>]_vars

\* C25 amended: qmem_malloc_tmp(n) never changes used_mem or the generation
\* and never removes or splits a free block. When a free block of at least n
\* bytes exists, or the call fails, the free index and the page table are
\* unchanged; otherwise one page of max(n, page_size) bytes is appended to
\* the page table and registered whole in the free index, and its start is
\* returned.
C25_PeekCommitsOnlyANewPage ==
  [][ret'.op = "qmem_malloc_tmp"
       => /\ used_mem' = used_mem /\ qmem_generation' = qmem_generation
          /\ IF (\E c \in Blocks(left) : c.size >= ret'.n) \/ ret'.ptr = NULL
             THEN UNCHANGED <<left, pages, heap>>
             ELSE /\ pages' = Append(pages,
                                     [id |-> ret'.ptr[1],
                                      size |-> IF ret'.n >= page_size
                                               THEN ret'.n ELSE page_size])
                  /\ ret'.ptr[2] = 0
                  /\ Blocks(left') =
                       Blocks(left) \cup
                       {[size |-> pages'[Len(pages')].size, ptr |-> ret'.ptr]}
                  /\ Len(left') = Len(left) + 1]_vars

\* a peek found no block, acquired a page and left it whole in the free
\* index while blocks were in use
C25_Witness ==
  /\ state = "st_inited" /\ used_mem > 0
  /\ ret.op = "qmem_malloc_tmp" /\ ret.ptr # NULL /\ ret.ptr[1] \in HeapIds
  /\ pages[Len(pages)].id = ret.ptr[1]
  /\ [size |-> pages[Len(pages)].size, ptr |-> ret.ptr] \in Blocks(left)

\* C26: a qmem_malloc_tmp(n) immediately followed by qmem_malloc(n) returns
\* the same address from both calls, in every pool state.
C26_PeekedBlockIsNextAllocated ==
  (ret.op \in {"qmem_malloc", "qmem_malloc0"} /\ ret.peeked # NULL)
    => ret.ptr = ret.peeked

\* the peek found no block and acquired a page, and the allocation that
\* followed took its start while other blocks were free
C26_Witness ==
  /\ ret.op = "qmem_malloc" /\ ret.peeked # NULL
  /\ ret.ptr[1] \in HeapIds /\ ret.ptr[2] = 0
  /\ ret.n < pages[Len(pages)].size /\ Len(left) > 1

\* one whole-page free block per page of the page table
WholePages(ps) ==
  {[size |-> ps[i].size, ptr |-> Ptr(ps[i].id, 0)] : i \in 1 .. Len(ps)}

\* C27: qmem_free_ptrs resets the pool exactly when used_mem exceeds half of
\* the total size of all pages held: then the free index holds exactly one
\* whole-page block per held page, used_mem is 0 and no page is released;
\* otherwise the free index, used_mem and the pages are unchanged.
C27_SoftReclaimAtHalfOfPages ==
  [][(state = "st_inited" /\ ret'.op = "qmem_free_ptrs")
       => IF used_mem + used_mem > PagesTotal
          THEN /\ Blocks(left') = WholePages(pages)
               /\ Len(left') = Len(pages)
               /\ used_mem' = 0
               /\ pages' = pages /\ heap' = heap
          ELSE UNCHANGED <<left, used_mem, pages, heap>>]_vars

FirstFragment(st) ==
  /\ ansgen.state \in {"ap_any", st}
  /\ ansgen.base.state = "st_ansgen_wait"
  /\ ansgen.base.qmem_req_generation = qmem_generation
  /\ ansgen.str_buf.len = 0
  /\ crashed' = NoCrash

\* the generator is done and its answer is exactly `frag`
FinalizedWith(frag) ==
  /\ ansgen'.base.state = "st_ansgen_done"
  /\ ansgen'.base.ans.state = "nq_ok"
  /\ ansgen'.base.ans.res.kind = "buf"
  /\ ansgen'.base.ans.res.bytes = frag
  /\ ansgen'.base.ans.res_len = Len(frag)

\* C30: in an mc generator committed to ap_get (or committing to it) a value
\* fragment never finalizes: the base state and the answer record are the
\* same after it as before, so they stay waiting and unset until the end
\* marker; in ap_store, ap_other and ap_version the first defining fragment
\* sets the base state to done with that fragment as the answer.
C30_OnlyEndFinalizesGet ==
  [][/\ ret'.op = "mc_value" =>
          \A reader \in Frags :
            (/\ McValue(reader)
             /\ ansgen.state \in {"ap_any", "ap_get"} /\ crashed' = NoCrash)
              => /\ ansgen'.state = "ap_get"
                 /\ ansgen'.base = ansgen.base
     /\ ret'.op = "mc_xstored" =>
          \A is_stored \in BOOLEAN :
            (McXStored(is_stored) /\ FirstFragment("ap_store"))
              => FinalizedWith(IF is_stored THEN stored_reader ELSE notstored_reader)
     /\ ret'.op = "mc_other" =>
          \A reader \in Frags :
            (McOther(reader) /\ FirstFragment("ap_other"))
              => FinalizedWith(reader)
     /\ ret'.op = "mc_version" =>
          \A reader \in Frags :
            (McVersion(reader) /\ ansgen.state = "ap_version"
             /\ FirstFragment("ap_version"))
              => FinalizedWith(reader)]_vars

\* two value fragments have been appended and the generator is still
\* waiting with its answer unset
C30_Witness ==
  /\ ansgen.kind = "mc" /\ ansgen.state = "ap_get" /\ ret.op = "mc_value"
  /\ Len(mc_log) = 2 /\ ansgen.str_buf.len > 2
  /\ ansgen.base.state = "st_ansgen_wait" /\ ansgen.base.ans = ZeroAnswer

(***************************************************************************)
(* PROPERTIES: TEARDOWN AND THE PENDING QUERIES                            *)
(***************************************************************************)

\* C19: php_queries_finish calls qmem_clear last: when qmem_clear has just
\* run, both ring queues have been cleared and the slot window has been
\* invalidated, so no queue holds a record and no slot is valid.
C19_ArenaReclaimedLast ==
  finish_pc = "line_1084"
    => /\ net_events.cnt = 0 /\ net_queries.cnt = 0
       /\ begin_slot_id = end_slot_id

\* C20: saving a query whose id is not pending raises count() by one; a
\* withdraw of an id that was saved while not pending and not saved again
\* since returns that very query (id, function name and result fetcher) and
\* lowers count() by one, whatever was saved and withdrawn under other ids
\* in between.
C20_WithdrawReturnsSaved ==
  [][/\ (ret'.op = "save" /\ ret'.query.query_id \notin DOMAIN queries_)
          => count(queries_') = count(queries_) + 1
     /\ (/\ ret'.op = "withdraw"
         /\ ret'.query_id \in DOMAIN rpc_first
         /\ ret'.query_id \notin rpc_resaved)
          => /\ ret'.res = rpc_first[ret'.query_id]
             /\ count(queries_') = count(queries_) - 1]_vars

\* a query came back while a query saved after it is still pending
C20_Witness ==
  /\ ret.op = "withdraw" /\ ret.res # NoQuery
  /\ ret.res.query_id = 1 /\ ret.res.result_fetcher = 2
  /\ DOMAIN queries_ = {2}

\* C21: a withdraw succeeds at most once per save: a withdraw of an id that
\* was never saved, was already withdrawn, or was dropped by hard_reset
\* returns no query (UnknownPendingQuery) and leaves the registry unchanged.
C21_UnknownWithdrawFails ==
  [][(ret'.op = "withdraw" /\ ret'.query_id \notin DOMAIN rpc_first)
       => /\ ret'.res = NoQuery
          /\ queries_' = queries_]_vars

\* a withdraw of an id found nothing while another query stayed pending
C21_Witness ==
  /\ ret.op = "withdraw" /\ ret.res = NoQuery
  /\ ret.query_id = 1 /\ DOMAIN queries_ = {2}

\* C29: after php_queries_finish the allocator is uninitialised with an
\* empty free index, used_mem = 0 and every page malloc'ed released, no slot
\* id is valid and both ring queues are empty; these are the preconditions
\* of qmem_init, so the next php_queries_start is accepted, whatever the
\* script did while it ran.
C29_FinishLeavesNothingBehind ==
  (finish_pc = "idle" /\ ret.op = "net_queries.clear")
    => /\ state = "st_empty" /\ left = <<>>
       /\ used_mem = 0 /\ heap = {}
       /\ \A s \in SlotIds : ~is_valid_slot(s)
       /\ empty(net_events) /\ net_events.begin = net_events.end
       /\ empty(net_queries) /\ net_queries.begin = net_queries.end

\* the second php_queries_finish has ended after a run in which a page was
\* acquired, slots were handed out and events were queued
C29_Witness ==
  /\ finish_pc = "idle" /\ ret.op = "net_queries.clear"
  /\ qmem_generation = 2
  /\ Len(pages) > static_pages_n
  /\ ev_stamp > 1 /\ end_slot_id > 2

(***************************************************************************)
(* PROPERTIES: SUB-STATES, CHAIN AND BUFFER                                *)
(***************************************************************************)

\* C31: the sub-state of an mc generator leaves ap_any on the first
\* classifying fragment and becomes the sub-state of that fragment (value
\* and end give ap_get, stored / not_stored ap_store, other ap_other, version
\* ap_version); once it is not ap_any, no fragment, set_query_type, error or
\* timeout changes it.
C31_FirstFragmentCommits ==
  [][(ansgen.kind = "mc" /\ ansgen'.kind = "mc" /\ crashed' = NoCrash)
       => /\ ansgen.state # "ap_any" => ansgen'.state = ansgen.state
          /\ (ansgen.state = "ap_any" /\ ret'.op \in FragmentOps)
               => ansgen'.state = FragmentState[ret'.op]]_vars

\* the sub-state each SQL handler asserts, and the one it leaves
SqlAccepts ==
  [sql_set_writer |-> "sql_ap_init", sql_ready |-> "sql_ap_wait_conn",
   sql_packet |-> "sql_ap_wait_ans", sql_done |-> "sql_ap_wait_ans"]
SqlLeaves ==
  [sql_set_writer |-> "sql_ap_wait_conn", sql_ready |-> "sql_ap_wait_ans",
   sql_packet |-> "sql_ap_wait_ans", sql_done |-> "sql_ap_wait_ans"]

\* C32: the sub-state of an SQL generator only advances sql_ap_init ->
\* sql_ap_wait_conn (set_writer) -> sql_ap_wait_ans (ready); each handler is
\* accepted only in its sub-state and only while the base state is
\* st_ansgen_wait; a writer that was attached is run exactly once, by ready,
\* before any packet is in the chain.
C32_SqlSubStateAdvances ==
  [][(ansgen.kind = "sql" /\ ansgen'.kind = "sql")
       => /\ ansgen'.state # ansgen.state
               => /\ crashed' = NoCrash
                  /\ ret'.op \in {"sql_set_writer", "sql_ready"}
          /\ (ret'.op \in DOMAIN SqlAccepts /\ crashed' = NoCrash)
               => /\ ansgen.base.state = "st_ansgen_wait"
                  /\ ansgen.state = SqlAccepts[ret'.op]
                  /\ ansgen'.state = SqlLeaves[ret'.op]
          /\ ansgen'.runs # ansgen.runs
               => /\ ret'.op = "sql_ready" /\ ansgen.writer # "nullptr"
                  /\ ansgen.runs = 0 /\ ansgen'.runs = 1
                  /\ DOMAIN ansgen.chain = {0}
          /\ (ansgen'.state = "sql_ap_wait_ans" /\ ansgen'.writer # "nullptr")
               => ansgen'.runs = 1
          /\ ansgen'.chain # ansgen.chain
               => ret'.op = "sql_packet" /\ ansgen.state = "sql_ap_wait_ans"]_vars

\* a writer was attached and run once, and two packets were appended after
C32_Witness ==
  /\ ansgen.kind = "sql" /\ ret.op = "sql_packet" /\ crashed = NoCrash
  /\ ansgen.state = "sql_ap_wait_ans" /\ ansgen.base.state = "st_ansgen_wait"
  /\ ansgen.writer # "nullptr" /\ ansgen.runs = 1
  /\ Cardinality(DOMAIN ansgen.chain) = 3

\* the packets met on a walk from `node` along next until the head (node 0)
\* is reached, as engine_sql_run_query walks; at most `fuel` nodes
RECURSIVE ChainWalk(_, _, _)
ChainWalk(C, node, fuel) ==
  IF node = 0 \/ fuel = 0 \/ node \notin DOMAIN C
  THEN <<>>
  ELSE <<[buf |-> C[node].buf, len |-> C[node].len]>>
         \o ChainWalk(C, C[node].next, fuel - 1)

\* C33: the chain of an SQL generator is circular and doubly linked after
\* every append; when done reaches an alive generator after k >= 0 packets
\* the answer is ok, its chain is the generator's chain, and the walk from
\* the head's successor back to the head yields exactly the k packets with
\* their lengths in delivery order.
C33_ChainHoldsPacketsInOrder ==
  (ansgen.kind = "sql" /\ crashed = NoCrash)
    => /\ \A n \in DOMAIN ansgen.chain :
            /\ ansgen.chain[n].next \in DOMAIN ansgen.chain
            /\ ansgen.chain[n].prev \in DOMAIN ansgen.chain
            /\ ansgen.chain[ansgen.chain[n].next].prev = n
            /\ ansgen.chain[ansgen.chain[n].prev].next = n
       /\ (ret.op = "sql_done" /\ ansgen.base.qmem_req_generation = qmem_generation)
            => /\ ansgen.base.state = "st_ansgen_done"
               /\ ansgen.base.ans.state = "nq_ok"
               /\ ansgen.base.ans.chain = 0
               /\ ChainWalk(ansgen.chain, ansgen.chain[0].next,
                            Cardinality(DOMAIN ansgen.chain))
                    = [i \in 1 .. Len(mc_log) |->
                         [buf |-> mc_log[i], len |-> Len(mc_log[i])]]

\* done after the packets "ab" and "cd"
C33_Witness ==
  /\ ansgen.kind = "sql" /\ crashed = NoCrash /\ ret.op = "sql_done"
  /\ ansgen.base.qmem_req_generation = qmem_generation
  /\ ansgen.base.ans.state = "nq_ok"
  /\ mc_log = << <<"a", "b">>, <<"c", "d">> >>

\* every fragment a memcached handler may append
AllFrags == Frags \cup {end_reader, stored_reader, notstored_reader}

\* C34: an append to the str_buf of a memcached generator leaves the old
\* content followed by the fragment, with len < buf_len (so the terminator
\* str_buf_cstr writes at buf[len] is in bounds); buf_len changes only when
\* len + the fragment's length >= buf_len, and then becomes
\* 2 * (len + the fragment's length) + 1.
C34_StrBufAppend ==
  [][(/\ ansgen.kind = "mc" /\ ansgen'.kind = "mc"
      /\ ansgen'.str_buf # ansgen.str_buf)
       => \E reader \in AllFrags :
            /\ ansgen'.str_buf.buf = ansgen.str_buf.buf \o reader
            /\ ansgen'.str_buf.len = ansgen.str_buf.len + Len(reader)
            /\ ansgen'.str_buf.len = Len(ansgen'.str_buf.buf)
            /\ ansgen'.str_buf.len < ansgen'.str_buf.buf_len
            /\ ansgen'.str_buf.buf_len =
                 IF ansgen.str_buf.len + Len(reader) >= ansgen.str_buf.buf_len
                 THEN 2 * (ansgen.str_buf.len + Len(reader)) + 1
                 ELSE ansgen.str_buf.buf_len]_vars

\* "ab" grew the buffer to 5 bytes and "cd" was appended without growing it
C34_Witness ==
  /\ ansgen.kind = "mc" /\ ret.op = "mc_value" /\ crashed = NoCrash
  /\ ansgen.str_buf.buf = <<"a", "b", "c", "d">>
  /\ ansgen.str_buf.len = 4 /\ ansgen.str_buf.buf_len = 5

\* C35: once the answer of an alive generator is finalized (nq_ok or
\* nq_error), no fragment, error or timeout that the generator accepts
\* changes the answer's state, payload or length.
C35_FinalizedAnswerIsFrozen ==
  [][(/\ ansgen.kind # "none" /\ ansgen'.kind = ansgen.kind
      /\ ansgen.base.qmem_req_generation = qmem_generation
      /\ ansgen.base.ans.state \in {"nq_ok", "nq_error"}
      /\ crashed' = NoCrash)
       => /\ ansgen'.base.ans.state = ansgen.base.ans.state
          /\ ansgen'.base.ans.res = ansgen.base.ans.res
          /\ ansgen'.base.ans.res_len = ansgen.base.ans.res_len
          /\ ansgen'.base.ans.chain = ansgen.base.ans.chain]_vars

(***************************************************************************)
(* PROPERTIES: EVENTS, QUERIES, QUEUE AND POOL                             *)
(***************************************************************************)

EventOps == {"create_rpc_error_event", "create_rpc_answer_event"}

\* C36: create_rpc_answer_event and create_rpc_error_event are
\* all-or-nothing.  A call that returns 1 appended exactly one event to the
\* event queue and that event carries the given slot id; any other call
\* returned 0 (the slot id is outside the slot window), -2 (the queue is
\* full) or -1 (the payload buffer could not be allocated) and left the
\* records of the queue, and its begin, end and count, as before the call.
C36_EventCreationIsAllOrNothing ==
  [][(ret'.op \in EventOps /\ crashed' = NoCrash)
       => IF ret'.status = 1
          THEN /\ Len(LiveCells(net_events')) = Len(LiveCells(net_events)) + 1
               /\ Front(LiveCells(net_events')) = LiveCells(net_events)
               /\ LiveCells(net_events')[net_events'.cnt].slot_id = ret'.slot_id
               /\ net_events'.begin = net_events.begin
               /\ is_valid_slot(ret'.slot_id)
          ELSE /\ ret'.status \in {0, -1, -2}
               /\ QShape(net_events') = QShape(net_events)
               /\ LiveCells(net_events') = LiveCells(net_events)
               /\ ret'.status = 0 <=> ~is_valid_slot(ret'.slot_id)
               /\ ret'.status = -2 => net_events.cnt = N
               /\ ret'.status = -1 => (ret'.op = "create_rpc_answer_event" /\ net_events.cnt < N)]_vars

\* a payload buffer could not be allocated for an event on a queue that
\* holds a record already
C36_Witness ==
  /\ ret.op = "create_rpc_answer_event"
  /\ ret.status = -1
  /\ net_events.cnt > 0
  /\ crashed = NoCrash

\* C37: engine_rpc_send_query is all-or-nothing.  A call that does not
\* return -1 appended exactly one query to the query queue, issued exactly
\* one slot id that was not valid before, returned it, stored it in that
\* query, and the id is valid after the call; a call that returns -1 left
\* the query queue (its records, begin, end and count) and the slot window
\* as before the call.
C37_SendQueryIsAllOrNothing ==
  [][(ret'.op = "engine_rpc_send_query" /\ crashed' = NoCrash)
       => IF ret'.res # -1
          THEN /\ LiveCells(net_queries') = Append(LiveCells(net_queries), ret'.res)
               /\ net_queries'.begin = net_queries.begin
               /\ ret'.res = end_slot_id
               /\ ~is_valid_slot(ret'.res)
               /\ end_slot_id' = end_slot_id + 1
               /\ begin_slot_id' = begin_slot_id
               /\ begin_slot_id' <= ret'.res /\ ret'.res < end_slot_id'
          ELSE /\ QShape(net_queries') = QShape(net_queries)
               /\ LiveCells(net_queries') = LiveCells(net_queries)
               /\ begin_slot_id' = begin_slot_id
               /\ end_slot_id' = end_slot_id]_vars

\* no slot id is left for a query that the queue had room for
C37_Witness ==
  /\ ret.op = "engine_rpc_send_query"
  /\ ret.res = -1
  /\ end_slot_id > max_slot_id
  /\ net_queries.cnt > 0
  /\ net_queries.cnt < N

\* C38: as long as every undo_create was applied to the most recently
\* created record that was neither popped nor undone, the ring queue keeps
\* 0 <= cnt <= N, 0 <= begin < N, 0 <= end < N, cnt congruent to end - begin
\* modulo N, and cnt is the number of records created and neither popped
\* nor undone.
C38_RingQueueShape ==
  ~ev_misused
    => /\ 0 <= net_events.cnt /\ net_events.cnt <= N
       /\ 0 <= net_events.begin /\ net_events.begin < N
       /\ 0 <= net_events.end /\ net_events.end < N
       /\ (net_events.cnt - (net_events.end - net_events.begin)) % N = 0
       /\ net_events.cnt = Len(ev_hist)
       /\ net_events.cnt = ev_out

\* the newest record was undone on a queue that has wrapped around
C38_Witness ==
  /\ ret.op = "undo_create"
  /\ ~ev_misused
  /\ crashed = NoCrash
  /\ net_events.end < net_events.begin
  /\ net_events.cnt > 0

\* the size of the page that the pool holds at address `pg`, 0 when it holds
\* none: a static page, or the page malloc returned last for that address
\* when it has not been freed since
HeldSize(pg) ==
  IF pg \in StaticIds THEN page_size
  ELSE LET at == {i \in 1 .. Len(pages) : pages[i].id = pg}
       IN IF pg \notin heap \/ at = {} THEN 0
          ELSE pages[CHOOSE i \in at : \A j \in at : i >= j].size

InsideHeldPage(b) == b.ptr[2] >= 0 /\ b.ptr[2] + b.size <= HeldSize(b.ptr[1])

\* C39: in every state reached by calls of qmem_init, qmem_malloc,
\* qmem_malloc_tmp, qmem_free_ptrs and qmem_clear that the assertions of
\* the code accept, calls between qmem_clear and the next qmem_init
\* included, every block of the free index and every block returned by an
\* allocation and not reclaimed since lies wholly inside a page the pool
\* holds: a static page, or a dynamically acquired page that has not been
\* released.
C39_BlocksInsideHeldPages ==
  crashed = NoCrash => \A b \in Blocks(left) \cup live : InsideHeldPage(b)

(***************************************************************************)
(* PROPERTIES: LAST NETWORK ERROR                                          *)
(***************************************************************************)

IsPrefix(p, s) == Len(p) <= Len(s) /\ SubSeq(s, 1, Len(p)) = p

\* C23: after a failed network call the stored last network error equals
\* the error string unchanged when its length does not exceed
\* MAX_NET_ERROR_LEN, and is a prefix of it otherwise.
C23_ErrorStoredUpToMaxLen ==
  (/\ ret.op \in {"engine_mc_run_query", "engine_sql_run_query"}
   /\ ret.res.state = "nq_error" /\ ret.res.res # NullRes)
    => IF Len(ret.res.res.s) <= MAX_NET_ERROR_LEN
       THEN last_net_error = ret.res.res.s
       ELSE IsPrefix(last_net_error, ret.res.res.s)

====
